---- MODULE Spec2Model ----
(***************************************************************************)
(* Model of the PSG sleep-analysis engine (src/psg_edf.py, with the older  *)
(* pipeline version src/edf30.py where a claim is about it).               *)
(*                                                                         *)
(* Units.  The code works on Python floats; the model holds the exact      *)
(* value and computes the double where a result depends on it:             *)
(*   - annotation times are in tenths of a second (30 s = 300), as the     *)
(*     file gives them; their doubles are Seconds(t);                      *)
(*   - stage minutes are in tenths of a minute (one epoch, 0.5 min = 5);   *)
(*   - an unrounded quotient (efficiency, percentage, index, density,      *)
(*     latency) is the exact fraction n / d with the shape of the code's   *)
(*     expression; a comparison with a threshold, a truncation and a       *)
(*     rounding are made on the double of that expression wherever it can  *)
(*     leave the exact value's side (a tie, a threshold met exactly);      *)
(*   - a value rounded with round(x, 2), and the composite score, are in   *)
(*     hundredths (100.00 = 10000), one rounded with round(x, 1) in tenths.*)
(* The beat detection of the older pipeline (medians, percentiles and      *)
(* rates of its heart-rate statistics) is computed on exact values.        *)
(* The samples of a signal are whole numbers; a breathing rate is held as  *)
(* the gap between two peaks in samples (the rate is 60 * sfreq / gap).    *)
(* Annotation labels are written by their ASCII part; the status words are *)
(* transliterated.                                                         *)
(***************************************************************************)
EXTENDS Integers, Sequences, FiniteSets, TLC

VARIABLES
    files,        \* the EDF files on disk: file id -> [loadable, uuid, raw]
    pc,           \* SQLGenerator.process_file (sequential run): position
    path,         \* the file the sequential run processes
    raw,          \* SleepAnalyzer.raw (None before a successful load)
    stages,       \* SleepAnalyzer.stages (None before calculate_stages)
    uuid,         \* process_file's local uuid
    result,       \* what process_file returned (None, or the output bundle)
    arch30,       \* edf30: outcome of calculate_sleep_architecture on the recording
    sequence,     \* calculate_rem_cycles: the stage-label sequence scanned
    i,            \* calculate_rem_cycles: loop index (0-based, as in the code)
    cycles,       \* calculate_rem_cycles: counter
    in_rem,       \* calculate_rem_cycles: flag
    rem_started,  \* calculate_rem_cycles: flag
    scan_pc,      \* calculate_rem_cycles: "scan" while looping, "returned" after
    wpc,          \* thread pool: each task's position in process_file
    wlocal,       \* thread pool: each task's local variables
    results,      \* thread pool: executor.map's result per file
    heart_rates,  \* _detect_heart_rate_episodes: the rates scanned
    hr_k,         \* _detect_heart_rate_episodes: rates consumed so far
    ep_cfg,       \* _detect_heart_rate_episodes: thresholds and minimum run length
    ep,           \* _detect_heart_rate_episodes: counters, flags and episode counts
    ep_pc,        \* _detect_heart_rate_episodes: "scan" while looping, "returned" after
    valid_mask,   \* what ArtifactProcessor.get_artifact_mask returned (None before the call)
    valid_mask30, \* edf30: what get_artifact_masks returned (None before the call)
    ecg_result,   \* what SignalAnalyzer.analyze_ecg returned (None before the call)
    spo2_result,  \* what SignalAnalyzer.analyze_spo2 returned (None before the call)
    resp_result,  \* what SignalAnalyzer.analyze_respiration returned (None before the call)
    spo2_result30, \* edf30: what analyze_spo2_channel_fast returned (None before the call)
    config,       \* SignalAnalyzer.config
    an_pc,        \* the channel analyzers run statement by statement: each one's position
    an_local,     \* the channel analyzers: each one's local variables
    arrays,       \* the arrays, lists and dictionaries the analyzers' calls have created
    folder,       \* edf30 process_edf_folder: position, self.raw, processed_files, failed_files
    folder_pc,    \* edf30 process_edf_folder: "loop", "returned", or "raised" if an exception escaped
    valid_segments, \* edf30 _get_clean_r_peaks: the (start, end) ranges found in the mask (None without a mask)
    seg_k,        \* edf30 _get_clean_r_peaks: segments consumed so far
    all_r_peaks,  \* edf30 _get_clean_r_peaks: the merged beat indices so far
    hr_results,   \* edf30 analyze_heart_rate_comprehensive: its `results` (None before it is built)
    beat_pc       \* edf30 analyze_heart_rate_comprehensive: position

engineVars == <<pc, path, raw, stages, uuid, result, arch30>>
scanVars   == <<sequence, i, cycles, in_rem, rem_started, scan_pc>>
poolVars   == <<wpc, wlocal, results>>
episodeVars == <<heart_rates, hr_k, ep_cfg, ep, ep_pc>>
maskVars   == <<valid_mask, valid_mask30>>
analyzerVars == <<config, an_pc, an_local, arrays>>
signalVars == <<ecg_result, spo2_result, resp_result, spo2_result30, analyzerVars>>
folderVars == <<folder, folder_pc>>
beatVars   == <<valid_segments, seg_k, all_r_peaks, hr_results, beat_pc>>
auxVars    == <<episodeVars, maskVars, signalVars, folderVars, beatVars>>
vars       == <<files, engineVars, scanVars, poolVars, auxVars>>

----------------------------------------------------------------------------
(* Python values *)

None == <<>>
Some(v) == <<v>>
\* d.get(key, default) on `x or {}`, x being None or a dict
Get(opt, key, default) == IF opt = None THEN default ELSE opt[1][key]

\* `not raw`, `not self.raw`: the recording is None, or it is a Raw of no
\* samples (len(raw) is its n_times, and an object of length 0 is false).  A
\* recording written without n_times has samples.
NoRecording(r) == r = None \/ ("n_times" \in DOMAIN r[1] /\ r[1].n_times = 0)

Abs(x) == IF x < 0 THEN -x ELSE x
Min(a, b) == IF a <= b THEN a ELSE b
Max(a, b) == IF a >= b THEN a ELSE b

(* Python floats (IEEE 754 binary64, round to nearest, ties to even).      *)
(* A natural number too wide for the model checker's integers is a         *)
(* sequence of limbs, least significant first; a positive double is        *)
(* [m, e] for m * 2^e with a 53-bit m, and zero has the empty m.           *)
(* The arithmetic is one recursive operator, FloatOp, that is given the    *)
(* name of the operation; each operation has an operator of its name.      *)
(* The model hands it an expression as the code writes it and reads the    *)
(* result with Value, Trunc, RoundDecimal or CmpFrac.                      *)

\* a limb holds 15 bits; the mantissa of a double has 53
LimbBase == 2 ^ 15
FZero == [m |-> <<>>, e |-> 0]

Limb(x, k) == IF k >= 1 /\ k <= Len(x) THEN x[k] ELSE 0

RECURSIVE FloatOp(_, _, _, _)
BigLen(x) == FloatOp("BigLen", x, 0, 0)
BigNorm(x) == FloatOp("BigNorm", x, 0, 0)
BigOfInt(n) == FloatOp("BigOfInt", n, 0, 0)
BigToInt(x) == FloatOp("BigToInt", x, 0, 0)
BigBitLen(x) == FloatOp("BigBitLen", x, 0, 0)
BigAdd(x, y) == FloatOp("BigAdd", x, y, 0)
BigSub(x, y) == FloatOp("BigSub", x, y, 0)
BigCmp(x, y) == FloatOp("BigCmp", x, y, 0)
BigMulSmall(x, c) == FloatOp("BigMulSmall", x, c, 0)
BigMul(x, y) == FloatOp("BigMul", x, y, 0)
BigShl(x, k) == FloatOp("BigShl", x, k, 0)
BigShr(x, k) == FloatOp("BigShr", x, k, 0)
BigShrNearest(x, k) == FloatOp("BigShrNearest", x, k, 0)
DivDigit(r, d) == FloatOp("DivDigit", r, d, 0)
DivLimbs(r, d, count) == FloatOp("DivLimbs", r, d, count)
FRound(m, e) == FloatOp("FRound", m, e, 0)
FOfInt(n) == FloatOp("FOfInt", n, 0, 0)
FMul(x, y) == FloatOp("FMul", x, y, 0)
FDiv(x, y) == FloatOp("FDiv", x, y, 0)
FAdd(x, y) == FloatOp("FAdd", x, y, 0)
FSub(x, y) == FloatOp("FSub", x, y, 0)
FCmpFrac(x, n, d) == FloatOp("FCmpFrac", x, n, d)
FTrunc(x) == FloatOp("FTrunc", x, 0, 0)
FRoundDecimal(x, scale) == FloatOp("FRoundDecimal", x, scale, 0)
Value(expr) == FloatOp("Value", expr, 0, 0)
Trunc(expr) == FloatOp("Trunc", expr, 0, 0)
RoundDecimal(expr, scale) == FloatOp("RoundDecimal", expr, scale, 0)
CmpFrac(expr, n, d) == FloatOp("CmpFrac", expr, n, d)

\* the operands are evaluated before the operation is applied
FloatOp(op, x, y, z) ==
    IF x # x \/ y # y \/ z # z THEN FZero
    ELSE
    CASE op = "BigLen" ->
             \* the number of limbs of x up to its leading non-zero limb
             IF \A k \in 1..Len(x) : x[k] = 0 THEN 0
             ELSE CHOOSE k \in 1..Len(x) : x[k] # 0 /\ \A j \in (k + 1)..Len(x) : x[j] = 0
      [] op = "BigNorm" ->
             SubSeq(x, 1, BigLen(x))
      [] op = "BigOfInt" ->
             \* x < 2^31 as limbs
             BigNorm(<<x % LimbBase, (x \div LimbBase) % LimbBase, x \div (LimbBase * LimbBase)>>)
      [] op = "BigToInt" ->
             Limb(x, 1) + LimbBase * Limb(x, 2) + LimbBase * LimbBase * Limb(x, 3)
      [] op = "BigBitLen" ->
             IF BigLen(x) = 0 THEN 0
             ELSE 15 * (BigLen(x) - 1)
                  + Cardinality({b \in 0..14 : 2 ^ b <= x[BigLen(x)]})
      [] op = "BigAdd" ->
             \* x + y: a limb takes a carry when a lower limb overflows and
             \* every limb between the two is full
             LET s(k) == Limb(x, k) + Limb(y, k)
                 carry(k) == \E j \in 1..(k - 1) :
                                 /\ s(j) >= LimbBase
                                 /\ \A n \in (j + 1)..(k - 1) : s(n) = LimbBase - 1
                 len == (IF Len(x) >= Len(y) THEN Len(x) ELSE Len(y)) + 1
             IN  BigNorm([k \in 1..len |-> (s(k) + (IF carry(k) THEN 1 ELSE 0)) % LimbBase])
      [] op = "BigSub" ->
             \* x - y for x >= y, the borrows found the same way
             LET d(k) == Limb(x, k) - Limb(y, k)
                 borrow(k) == \E j \in 1..(k - 1) :
                                  /\ d(j) < 0
                                  /\ \A n \in (j + 1)..(k - 1) : d(n) = 0
             IN  BigNorm([k \in 1..Len(x) |->
                             (d(k) - (IF borrow(k) THEN 1 ELSE 0) + LimbBase) % LimbBase])
      [] op = "BigCmp" ->
             \* -1, 0 or 1 as x <, =, > y
             LET len == IF Len(x) >= Len(y) THEN Len(x) ELSE Len(y)
                 differ == {k \in 1..len : Limb(x, k) # Limb(y, k)}
                 top == CHOOSE k \in differ : \A j \in differ : j <= k
             IN  IF differ = {} THEN 0
                 ELSE IF Limb(x, top) > Limb(y, top) THEN 1 ELSE -1
      [] op = "BigMulSmall" ->
             \* x * y for 0 <= y <= 2^15
             BigAdd([k \in 1..Len(x) |-> (x[k] * y) % LimbBase],
                    <<0>> \o [k \in 1..Len(x) |-> (x[k] * y) \div LimbBase])
      [] op = "BigMul" ->
             IF y = <<>> THEN <<>>
             ELSE BigAdd(BigMulSmall(x, y[1]), <<0>> \o BigMul(x, Tail(y)))
      [] op = "BigShl" ->
             \* x * 2^y
             [k \in 1..(y \div 15) |-> 0] \o BigMulSmall(x, 2 ^ (y % 15))
      [] op = "BigShr" ->
             \* floor(x / 2^y)
             LET limbs == y \div 15
                 bits == y % 15
             IN  BigNorm([k \in 1..(Len(x) - limbs) |->
                             Limb(x, k + limbs) \div 2 ^ bits
                             + (Limb(x, k + limbs + 1) % 2 ^ bits) * 2 ^ (15 - bits)])
      [] op = "BigShrNearest" ->
             \* x / 2^y rounded to the nearest integer, ties to even
             LET q == BigShr(x, y)
                 rest == BigSub(x, BigShl(q, y))
                 c == BigCmp(BigAdd(rest, rest), BigShl(<<1>>, y))
             IN  IF c > 0 \/ (c = 0 /\ Limb(q, 1) % 2 = 1) THEN BigAdd(q, <<1>>) ELSE q
      [] op = "DivDigit" ->
             \* one limb of a quotient: [q |-> floor(x * 2^15 / y), r |-> the rest]
             \* for x < y and y of four limbs, the highest at least 2^14; the
             \* estimate from the leading limbs is at most two too large
             LET n == <<0>> \o x
                 guess == (Limb(x, 4) * LimbBase + Limb(x, 3)) \div y[4]
                 qhat == IF guess >= LimbBase THEN LimbBase - 1 ELSE guess
                 q == IF BigCmp(BigMulSmall(y, qhat), n) <= 0 THEN qhat
                      ELSE IF BigCmp(BigMulSmall(y, qhat - 1), n) <= 0 THEN qhat - 1
                      ELSE qhat - 2
             IN  [q |-> q, r |-> BigSub(n, BigMulSmall(y, q))]
      [] op = "DivLimbs" ->
             \* z limbs of the quotient x / y below the point, and what is left
             IF z = 0 THEN [q |-> <<>>, r |-> x]
             ELSE LET top == DivDigit(x, y)
                      rest == DivLimbs(top.r, y, z - 1)
                  IN  [q |-> rest.q \o <<top.q>>, r |-> rest.r]
      [] op = "FRound" ->
             \* the double nearest to x * 2^y, x in limbs
             LET len == BigBitLen(x)
                 q == BigShrNearest(x, len - 53)
             IN  IF len = 0 THEN FZero
                 ELSE IF len <= 53
                 THEN [m |-> BigShl(x, 53 - len), e |-> y - (53 - len)]
                 ELSE IF BigBitLen(q) > 53
                 THEN [m |-> BigShr(q, 1), e |-> y + len - 53 + 1]
                 ELSE [m |-> q, e |-> y + len - 53]
      [] op = "FOfInt" ->
             \* float(x) for an integer 0 <= x < 2^31
             FRound(BigOfInt(x), 0)
      [] op = "FMul" ->
             FRound(BigMul(x.m, y.m), x.e + y.e)
      [] op = "FDiv" ->
             \* x / y, y > 0: the quotient of the mantissas to 60 bits below the
             \* point and a sticky bit for what is left, then rounded
             IF x.m = <<>> THEN FZero
             ELSE LET ge == BigCmp(x.m, y.m) >= 0
                      dm == DivLimbs(BigShl(IF ge THEN BigSub(x.m, y.m) ELSE x.m, 7),
                                     BigShl(y.m, 7), 4)
                      quot == dm.q \o (IF ge THEN <<1>> ELSE <<>>)
                  IN  FRound(BigAdd(BigAdd(quot, quot), IF dm.r = <<>> THEN <<>> ELSE <<1>>),
                             x.e - y.e - 61)
      [] op = "FAdd" ->
             IF x.m = <<>> THEN y
             ELSE IF y.m = <<>> THEN x
             ELSE LET e == IF x.e <= y.e THEN x.e ELSE y.e
                  IN  FRound(BigAdd(BigShl(x.m, x.e - e), BigShl(y.m, y.e - e)), e)
      [] op = "FSub" ->
             \* x - y for x >= y
             IF y.m = <<>> THEN x
             ELSE LET e == IF x.e <= y.e THEN x.e ELSE y.e
                  IN  FRound(BigSub(BigShl(x.m, x.e - e), BigShl(y.m, y.e - e)), e)
      [] op = "FCmpFrac" ->
             \* -1, 0 or 1 as x <, =, > y / z
             IF x.e >= 0 THEN BigCmp(BigShl(BigMul(x.m, BigOfInt(z)), x.e), BigOfInt(y))
             ELSE BigCmp(BigMul(x.m, BigOfInt(z)), BigShl(BigOfInt(y), -x.e))
      [] op = "FTrunc" ->
             \* int(x)
             IF x.e >= 0 THEN BigToInt(BigShl(x.m, x.e)) ELSE BigToInt(BigShr(x.m, -x.e))
      [] op = "FRoundDecimal" ->
             \* round(x, ndigits) in units of 10^-ndigits, y = 10^ndigits: Python
             \* rounds the exact binary value, ties to even
             IF x.e >= 0 THEN BigToInt(BigShl(BigMulSmall(x.m, y), x.e))
             ELSE BigToInt(BigShrNearest(BigMulSmall(x.m, y), -x.e))
      [] op = "Value" ->
             \* the double an expression evaluates to
             IF x[1] = "int" THEN FOfInt(x[2])
             ELSE IF x[1] = "val" THEN x[2]
             ELSE IF x[1] = "div" THEN FDiv(Value(x[2]), Value(x[3]))
             ELSE IF x[1] = "mul" THEN FMul(Value(x[2]), Value(x[3]))
             ELSE IF x[1] = "add" THEN FAdd(Value(x[2]), Value(x[3]))
             ELSE FSub(Value(x[2]), Value(x[3]))
      [] op = "Trunc" ->
             FTrunc(Value(x))
      [] op = "RoundDecimal" ->
             FRoundDecimal(Value(x), y)
      [] op = "CmpFrac" ->
             FCmpFrac(Value(x), y, z)

\* The expressions: Float(n) for float(n) of an integer n, Val(x) for a double
\* already computed, and
\* a / b, a * b, a + b, a - b of two expressions
Float(n) == <<"int", n>>
Val(x) == <<"val", x>>
Over(a, b) == <<"div", a, b>>
Times(a, b) == <<"mul", a, b>>
Plus(a, b) == <<"add", a, b>>
Minus(a, b) == <<"sub", a, b>>

\* a time that the file gives in tenths of a second, as the float read
Seconds(t) == Over(Float(t), Float(10))

\* The value of an arithmetic expression of the code is held as the exact
\* quotient n / d (d > 0) together with the shape of the expression, from
\* which the double the code holds is computed where it can decide:
\*   a / b             Frac(a, b)
\*   (a / b) * 100     Percent(a, b)
\*   c / (m / 60)      PerHour(c, m), m minutes in tenths
\* and a value whose operands are not exact carries its double (by "double").
Frac(n, d) == [n |-> n, d |-> d, by |-> "quotient"]
Percent(a, b) == [n |-> a * 100, d |-> b, by |-> "percent"]
PerHour(c, minutes) == [n |-> c * 600, d |-> minutes, by |-> "per_hour"]
Zero == Frac(0, 1)

\* the code's expression for q (q >= 0)
Double(q) ==
    CASE q.by = "quotient" -> Over(Float(q.n), Float(q.d))
      [] q.by = "percent"  -> Times(Over(Float(q.n \div 100), Float(q.d)), Float(100))
      [] q.by = "per_hour" -> Over(Float(q.n \div 600), Over(Float(q.d), Float(600)))
      [] q.by = "double"   -> Val(q.double)

\* q >= t and q < t for an integer t.  The double is within a few units in
\* the last place of the exact value, so it can fall on the other side of t
\* only when the exact value is t itself.
FracGE(q, t) == IF q.n = t * q.d THEN CmpFrac(Double(q), t, 1) >= 0 ELSE q.n > t * q.d
FracLT(q, t) == IF q.n = t * q.d THEN CmpFrac(Double(q), t, 1) < 0 ELSE q.n < t * q.d
FracIsZero(q) == q.n = 0
\* round(q, 2) in hundredths.  Python rounds the double correctly: off a
\* decimal tie of the exact value that is the nearest hundredth, on one the
\* double decides (1 / 40 -> 0.03, 3 / 40 -> 0.07, 25 / 8 -> 3.12).
Round2(q) ==
    LET n == q.n * 100
        f == n \div q.d
        r == n % q.d
    IN  IF 2 * r = q.d THEN RoundDecimal(Double(q), 100)
        ELSE IF 2 * r > q.d THEN f + 1 ELSE f
\* int(x) of a value in hundredths: truncation toward zero
IntOfHundredths(h) == IF h >= 0 THEN h \div 100 ELSE -((-h) \div 100)
\* int(minutes) of minutes in tenths
IntOfTenths(m) == m \div 10

----------------------------------------------------------------------------
(* Annotation labels (raw.annotations.description) *)

StageW       == "Sleep stage W(eventUnknown)"
Stage1       == "Sleep stage 1(eventUnknown)"
Stage2       == "Sleep stage 2(eventUnknown)"
Stage3       == "Sleep stage 3(eventUnknown)"
StageR       == "Sleep stage R(eventUnknown)"
StageUnknown == "Sleep stage Unknown(eventUnknown)"

ObstructiveApnea    == "(pointPolySomnographyObstructiveApnea)"
CentralApnea        == "(pointPolySomnographyCentralApnea)"
MixedApnea          == "(pointPolySomnographyMixedApnea)"
ObstructiveHypopnea == "(pointPolySomnographyHypopnea)"
CentralHypopnea     == "(pointPolySomnographyCentralHypopnea)"
MixedHypopnea       == "(pointPolySomnographyMixedHypopnea)"
Desaturation        == "(pointPolySomnographyDesaturation)"
Snore               == "(pointPolySomnographySnore)"
CheyneStokes        == "(pointPolySomnographyCheyneStokesRespiration)"
Activation          == "(pointPolySomnographyActivation)"
LegsMovement        == "(pointPolySomnographyLegsMovements)"
PeriodicalLegs      == "(pointPolySomnographyPeriodicalLegsMovements)"
Bruxism             == "(pointBruxism)"
REMEvent            == "(pointPolySomnographyREM)"
TachyMarker         == "Tahikardiya"
BradyMarker         == "Bradikardiya"
ArtifactMarker      == "(blockArtefact)"
HeartbeatMarker     == "pointIlluminationSensorValue"

\* descriptions that hold a marker inside a longer text
TachyEpisode        == "Tahikardiya (epizod)"
MixedRhythm         == "Bradikardiya, Tahikardiya"
NotedArtifact       == "(blockArtefact) dvizhenie"

\* `marker in str(desc)`, on the descriptions of the model
Contains(desc, marker) ==
    \/ desc = marker
    \/ marker = TachyMarker /\ desc \in {TachyEpisode, MixedRhythm}
    \/ marker = BradyMarker /\ desc = MixedRhythm
    \/ marker = ArtifactMarker /\ desc = NotedArtifact

\* global CONFIG
CONFIG ==
    [ ecg |-> [rr_min |-> 3, rr_max |-> 20, hr_min |-> 40, hr_max |-> 150],
      respiration |-> [min_rate |-> 8, max_rate |-> 25, filter_low |-> 1, filter_high |-> 10],
      spo2 |-> [min_valid |-> 75, max_valid |-> 100, threshold_90 |-> 90, threshold_85 |-> 85],
      sleep_quality |->
        [ efficiency_weights |-> << <<85, 25>>, <<70, 20>>, <<50, 10>> >>,
          n3_threshold |-> 15,
          rem_threshold |-> 20,
          ahi_weights |-> << <<5, 30>>, <<15, 20>>, <<30, 10>> >>,
          arousal_weights |-> << <<10, 15>>, <<20, 10>> >> ] ]

\* a tolerance wide enough to admit 28.9 s (what `abs(duration - 30) <= 1.1`
\* would accept); the cutoff property C3 must tell the two apart
IsEpochDurationWithin11(duration) == Abs(duration - 300) <= 11

\* abs(duration - 30) < 1, durations in tenths of a second
IsEpochDuration(duration) == Abs(duration - 300) < 10

\* sum(1 for desc in annotations.description if str(desc) == label)
CountDesc(annotations, label) ==
    Cardinality({k \in DOMAIN annotations : annotations[k].desc = label})

\* the if / elif over the descriptions: one that holds the tachycardia marker
\* counts as tachycardia, any other that holds the bradycardia marker as
\* bradycardia
TachyCount(annotations) ==
    Cardinality({k \in DOMAIN annotations : Contains(annotations[k].desc, TachyMarker)})

BradyCount(annotations) ==
    Cardinality({k \in DOMAIN annotations : /\ ~Contains(annotations[k].desc, TachyMarker)
                                            /\ Contains(annotations[k].desc, BradyMarker)})

----------------------------------------------------------------------------
(* SleepAnalyzer.calculate_stages *)

StageNames == {"Wake", "N1", "N2", "N3", "REM", "Unknown"}
SleepStageNames == {"N1", "N2", "N3", "REM"}

StagesMapping ==
    (StageW :> "Wake") @@ (Stage1 :> "N1") @@ (Stage2 :> "N2") @@
    (Stage3 :> "N3") @@ (StageR :> "REM") @@ (StageUnknown :> "Unknown")

EmptyStages == [s \in StageNames |-> [count |-> 0, minutes |-> 0]]

\* the loop body crediting a whole minute per epoch; the minutes property C12
\* must tell this from the code's half minute
StagesStepWholeMinute(st, a) ==
    IF a.desc \in DOMAIN StagesMapping /\ IsEpochDuration(a.dur)
    THEN LET stage == StagesMapping[a.desc]
         IN  [st EXCEPT ![stage] = [count |-> @.count + 1, minutes |-> @.minutes + 10]]
    ELSE st

\* one iteration of the loop over (desc, duration)
StagesStep(st, a) ==
    IF a.desc \in DOMAIN StagesMapping /\ IsEpochDuration(a.dur)
    THEN LET stage == StagesMapping[a.desc]
         IN  [st EXCEPT ![stage] = [count |-> @.count + 1, minutes |-> @.minutes + 5]]
    ELSE st

\* the loop over annotations[lo..hi], in order, from the table st.  The range is
\* split in halves, and the first half is evaluated before the second starts
\* (the test `left = left`), only to keep TLC's evaluation shallow on a whole
\* night; the walks below are written the same way.
RECURSIVE StagesWalk(_, _, _, _)
StagesWalk(annotations, lo, hi, st) ==
    IF lo > hi THEN st
    ELSE IF lo = hi THEN StagesStep(st, annotations[lo])
    ELSE LET mid == (lo + hi) \div 2
             left == StagesWalk(annotations, lo, mid, st)
         IN  IF left = left THEN StagesWalk(annotations, mid + 1, hi, left) ELSE left

\* lines 404-421: the table filled from the annotations read at line 404
StagesOf(annotations) == StagesWalk(annotations, 1, Len(annotations), EmptyStages)

\* returns the table it also stores in self.stages; without a recording
\* (lines 401-402) it returns None and stores nothing
calculate_stages(r) ==
    IF NoRecording(r) THEN None ELSE Some(StagesOf(r[1].annotations))

RECURSIVE SumMinutes(_, _)
SumMinutes(st, names) ==
    IF names = {} THEN 0
    ELSE LET s == CHOOSE x \in names : TRUE
         IN  st[s].minutes + SumMinutes(st, names \ {s})

\* sum(self.stages[s]['minutes'] for s in ['N1', 'N2', 'N3', 'REM'])
TotalSleep(st) == SumMinutes(st, SleepStageNames)

(* SleepAnalyzer.calculate_efficiency *)
\* lines 432-439: the dict built from the two sums and the Wake minutes
EfficiencyOf(total_sleep, total_bed, wake) ==
    [ sleep_efficiency |-> IF total_bed > 0 THEN Percent(total_sleep, total_bed) ELSE Zero,
      total_sleep_time |-> total_sleep,
      total_bed_time |-> total_bed,
      wake_after_sleep_onset |-> wake ]

\* the method on one table: every read of self.stages finds stg
calculate_efficiency(stg) ==
    IF stg = None THEN None
    ELSE Some(EfficiencyOf(TotalSleep(stg[1]), SumMinutes(stg[1], DOMAIN stg[1]),
                           stg[1]["Wake"].minutes))

(* SleepAnalyzer.calculate_architecture *)
\* lines 449-454: the dict built from the sum of line 445 (not 0) and the four
\* stage minutes read again in the dict
ArchitectureOf(total_sleep, n1, n2, n3, rem) ==
    [ n1_percentage |-> Percent(n1, total_sleep),
      n2_percentage |-> Percent(n2, total_sleep),
      n3_percentage |-> Percent(n3, total_sleep),
      rem_percentage |-> Percent(rem, total_sleep) ]

\* the method on one table: every read of self.stages finds stg
calculate_architecture(stg) ==
    IF stg = None THEN None
    ELSE LET total_sleep == TotalSleep(stg[1])
         IN  IF total_sleep = 0 THEN None
             ELSE Some(ArchitectureOf(total_sleep, stg[1]["N1"].minutes, stg[1]["N2"].minutes,
                                      stg[1]["N3"].minutes, stg[1]["REM"].minutes))

\* `current_time += duration` on doubles.  While every duration added is a
\* multiple of 0.5 s the sum is exact and `clock` stays None; from the first
\* other duration on, `clock` holds the double that the additions give.
Clock(acc, a) ==
    IF acc.clock = None /\ a.dur % 5 = 0 THEN None
    ELSE Some(Value(Plus(IF acc.clock = None THEN Seconds(acc.current_time)
                         ELSE Val(acc.clock[1]),
                         Seconds(a.dur))))

\* a variant whose sleep-onset list holds N1, N2 and N3 only
LatencyStepNremOnset(acc, a) ==
    LET is_sleep == a.desc \in {Stage1, Stage2, Stage3}
        sleep_now == is_sleep /\ acc.first_sleep = None /\ IsEpochDuration(a.dur)
        rem_now == a.desc = StageR /\ acc.first_rem = None /\ IsEpochDuration(a.dur)
    IN  [first_sleep |-> IF sleep_now THEN Some(acc.current_time) ELSE acc.first_sleep,
         first_rem |-> IF rem_now THEN Some(acc.current_time) ELSE acc.first_rem,
         current_time |-> acc.current_time + a.dur,
         sleep_clock |-> IF sleep_now THEN acc.clock ELSE acc.sleep_clock,
         rem_clock |-> IF rem_now THEN acc.clock ELSE acc.rem_clock,
         clock |-> Clock(acc, a)]

(* SleepAnalyzer.calculate_latencies: elapsed time in tenths of a second,  *)
(* with the double of it where the two differ                              *)
LatencyStep(acc, a) ==
    LET is_sleep == a.desc \in {Stage1, Stage2, Stage3, StageR}
        sleep_now == is_sleep /\ acc.first_sleep = None /\ IsEpochDuration(a.dur)
        rem_now == a.desc = StageR /\ acc.first_rem = None /\ IsEpochDuration(a.dur)
    IN  [first_sleep |-> IF sleep_now THEN Some(acc.current_time) ELSE acc.first_sleep,
         first_rem |-> IF rem_now THEN Some(acc.current_time) ELSE acc.first_rem,
         current_time |-> acc.current_time + a.dur,
         sleep_clock |-> IF sleep_now THEN acc.clock ELSE acc.sleep_clock,
         rem_clock |-> IF rem_now THEN acc.clock ELSE acc.rem_clock,
         clock |-> Clock(acc, a)]

RECURSIVE LatencyWalk(_, _, _, _)
LatencyWalk(annotations, lo, hi, acc) ==
    IF lo > hi THEN acc
    ELSE IF lo = hi THEN LatencyStep(acc, annotations[lo])
    ELSE LET mid == (lo + hi) \div 2
             left == LatencyWalk(annotations, lo, mid, acc)
         IN  IF left = left THEN LatencyWalk(annotations, mid + 1, hi, left) ELSE left

\* first_sleep = first_rem = None, current_time = 0
LatencyStart ==
    [first_sleep |-> None, first_rem |-> None, current_time |-> 0,
     sleep_clock |-> None, rem_clock |-> None, clock |-> None]

\* Python truthiness of `first_sleep` / `first_rem`: None and 0 are both false
Truthy(opt) == opt # None /\ opt[1] # 0

\* first_sleep / 60: the exact quotient, and the double where first_sleep is
\* not an exact sum
SleepOnsetLatency(acc) ==
    IF acc.sleep_clock = None THEN Frac(acc.first_sleep[1], 600)
    ELSE [n |-> acc.first_sleep[1], d |-> 600, by |-> "double",
          double |-> Value(Over(Val(acc.sleep_clock[1]), Float(60)))]

\* (first_rem - first_sleep) / 60
RemLatency(acc) ==
    IF acc.sleep_clock = None /\ acc.rem_clock = None
    THEN Frac(acc.first_rem[1] - acc.first_sleep[1], 600)
    ELSE LET sleep_at == IF acc.sleep_clock = None THEN Seconds(acc.first_sleep[1])
                         ELSE Val(acc.sleep_clock[1])
             rem_at == IF acc.rem_clock = None THEN Seconds(acc.first_rem[1])
                       ELSE Val(acc.rem_clock[1])
         IN  [n |-> acc.first_rem[1] - acc.first_sleep[1], d |-> 600, by |-> "double",
              double |-> Value(Over(Minus(rem_at, sleep_at), Float(60)))]

\* latencies are minutes: elapsed tenths of a second / 600
calculate_latencies(r) ==
    LET acc == LatencyWalk(r[1].annotations, 1, Len(r[1].annotations), LatencyStart)
    IN  Some([ sleep_onset_latency |->
                   IF Truthy(acc.first_sleep) THEN Some(SleepOnsetLatency(acc)) ELSE None,
               rem_latency |->
                   IF Truthy(acc.first_sleep) /\ Truthy(acc.first_rem)
                   THEN Some(RemLatency(acc)) ELSE None ])

\* edf30 SleepAnalyzer.calculate_sleep_latencies: the same loop and the same
\* two truthiness tests, under the names first_sleep_epoch / first_rem_epoch
edf30_calculate_sleep_latencies(r) ==
    LET acc == LatencyWalk(r[1].annotations, 1, Len(r[1].annotations), LatencyStart)
    IN  [ sleep_onset_latency |->
              IF Truthy(acc.first_sleep) THEN Some(SleepOnsetLatency(acc)) ELSE None,
          rem_latency |->
              IF Truthy(acc.first_sleep) /\ Truthy(acc.first_rem)
              THEN Some(RemLatency(acc)) ELSE None ]

(* SleepAnalyzer.calculate_fragmentation: raises nothing; stages must be set *)
\* the dict built from the annotations read at line 480 and the sum of line 490
FragmentationOf(r, total_sleep) ==
    LET annotations == r[1].annotations
        activations == CountDesc(annotations, Activation)
        limb_movements == CountDesc(annotations, LegsMovement)
        periodic_movements == CountDesc(annotations, PeriodicalLegs)
        bruxism == CountDesc(annotations, Bruxism)
        total_movements == limb_movements + periodic_movements
    IN  Some([ fragmentation_index |->
                   IF total_sleep > 0
                   THEN PerHour(activations + total_movements, total_sleep) ELSE Zero,
               activations |-> activations,
               limb_movements |-> limb_movements,
               periodic_limb_movements |-> periodic_movements,
               bruxism_events |-> bruxism,
               total_limb_movements |-> total_movements,
               arousal_index |->
                   IF total_sleep > 0 THEN PerHour(activations, total_sleep) ELSE Zero ])

\* the method on one table: every read of self.stages finds stg
calculate_fragmentation(r, stg) == FragmentationOf(r, TotalSleep(stg[1]))

(* SleepAnalyzer.calculate_respiratory_events *)
calculate_respiratory_events(r) ==
    LET annotations == r[1].annotations
        oa == CountDesc(annotations, ObstructiveApnea)
        ca == CountDesc(annotations, CentralApnea)
        ma == CountDesc(annotations, MixedApnea)
        oh == CountDesc(annotations, ObstructiveHypopnea)
        ch == CountDesc(annotations, CentralHypopnea)
        mh == CountDesc(annotations, MixedHypopnea)
    IN  Some([ apneas |-> oa + ca + ma,
               obstructive_apneas |-> oa, central_apneas |-> ca, mixed_apneas |-> ma,
               hypopneas |-> oh + ch + mh,
               obstructive_hypopneas |-> oh, central_hypopneas |-> ch, mixed_hypopneas |-> mh,
               desaturations |-> CountDesc(annotations, Desaturation),
               snoring |-> CountDesc(annotations, Snore),
               cheyne_stokes |-> CountDesc(annotations, CheyneStokes) ])

(* SleepAnalyzer.calculate_indices: {} (here None) when there is no sleep.   *)
\* indices without the `if total_sleep == 0: return None` guard, a night
\* without sleep being rated per one hour; the zero-sleep property C6 must
\* tell this from the guarded code
calculate_indices_per_hour_floor(r, stg) ==
    IF NoRecording(r) \/ stg = None THEN None
    ELSE LET ev == calculate_respiratory_events(r)[1]
             total_sleep == IF TotalSleep(stg[1]) = 0 THEN 600 ELSE TotalSleep(stg[1])
         IN  Some([ ahi |-> PerHour(ev.apneas + ev.hypopneas, total_sleep),
                    ahi_obstructive |->
                        PerHour(ev.obstructive_apneas + ev.obstructive_hypopneas, total_sleep),
                    ahi_central |->
                        PerHour(ev.central_apneas + ev.central_hypopneas, total_sleep),
                    ahi_mixed |->
                        PerHour(ev.mixed_apneas + ev.mixed_hypopneas, total_sleep),
                    odi |-> PerHour(ev.desaturations, total_sleep),
                    snoring_index |-> PerHour(ev.snoring, total_sleep) ])

(* The event totals the code copies into the dict are read by no caller     *)
(* and are left out.                                                        *)
\* lines 539-553: from the events of line 536 and the sum of line 537
IndicesOf(ev, total_sleep) ==
    IF total_sleep = 0 THEN None
    ELSE Some([ ahi |-> PerHour(ev.apneas + ev.hypopneas, total_sleep),
                ahi_obstructive |->
                    PerHour(ev.obstructive_apneas + ev.obstructive_hypopneas, total_sleep),
                ahi_central |->
                    PerHour(ev.central_apneas + ev.central_hypopneas, total_sleep),
                ahi_mixed |->
                    PerHour(ev.mixed_apneas + ev.mixed_hypopneas, total_sleep),
                odi |-> PerHour(ev.desaturations, total_sleep),
                snoring_index |-> PerHour(ev.snoring, total_sleep) ])

\* the method on one recording and one table
calculate_indices(r, stg) ==
    IF NoRecording(r) \/ stg = None THEN None
    ELSE IndicesOf(calculate_respiratory_events(r)[1], TotalSleep(stg[1]))

(* SleepAnalyzer.calculate_rem_quality *)
RemStatus(quality_score) ==
    IF quality_score >= 80 THEN "otlichno"
    ELSE IF quality_score >= 60 THEN "horosho"
    ELSE IF quality_score >= 40 THEN "udovletvoritelno" ELSE "nizkoe"

\* lines 576-595: the dict from the annotations read at line 575
RemQualityOf(annotations) ==
    LET rem_epochs == Cardinality({k \in DOMAIN annotations :
                          annotations[k].desc = StageR /\ IsEpochDuration(annotations[k].dur)})
        rem_events == CountDesc(annotations, REMEvent)
        rem_minutes == rem_epochs * 5
        rem_density == IF rem_minutes > 0 THEN Frac(rem_events * 10, rem_minutes) ELSE Zero
        time_score == IF rem_minutes >= 150 THEN 40 ELSE IF rem_minutes >= 50 THEN 20 ELSE 0
        \* density >= 1.5, density >= 0.5
        density_score == IF 2 * rem_density.n >= 3 * rem_density.d THEN 60
                         ELSE IF 2 * rem_density.n >= rem_density.d THEN 30 ELSE 0
        quality_score == Min(time_score + density_score, 100)
    IN  Some([ rem_quality_score |-> quality_score,
               rem_minutes |-> rem_minutes,
               rem_events |-> rem_events,
               rem_density |-> rem_density,
               status |-> RemStatus(quality_score) ])

\* None without a recording (lines 572-573)
calculate_rem_quality(r) ==
    IF NoRecording(r) THEN None ELSE RemQualityOf(r[1].annotations)

----------------------------------------------------------------------------
(* SleepAnalyzer.calculate_rem_cycles *)

CycleMapping ==
    (StageW :> "W") @@ (Stage1 :> "N1") @@ (Stage2 :> "N2") @@
    (Stage3 :> "N3") @@ (StageR :> "R")

NREM == {"N1", "N2", "N3"}

\* the sequence of mapped labels of the qualifying annotations, in order
CycleSequence(annotations) ==
    LET kept == SelectSeq(annotations,
                    LAMBDA a : a.desc \in DOMAIN CycleMapping /\ IsEpochDuration(a.dur))
    IN  [k \in 1..Len(kept) |-> CycleMapping[kept[k].desc]]

ScanStart == [cycles |-> 0, in_rem |-> FALSE, rem_started |-> FALSE]

\* the loop body without its third branch (Wake while in_rem); the Wake
\* property C9 must tell this from the code
RemStepNoWakeAbort(st, prev, current, next_) ==
    IF current = "R" /\ prev \in NREM /\ ~st.rem_started
    THEN [st EXCEPT !.rem_started = TRUE, !.in_rem = TRUE]
    ELSE IF current = "R" /\ next_ \in NREM /\ st.in_rem
    THEN [cycles |-> st.cycles + 1, in_rem |-> FALSE, rem_started |-> FALSE]
    ELSE st

\* a variant whose Wake branch clears in_rem only
RemStepWakeKeepsStarted(st, prev, current, next_) ==
    IF current = "R" /\ prev \in NREM /\ ~st.rem_started
    THEN [st EXCEPT !.rem_started = TRUE, !.in_rem = TRUE]
    ELSE IF current = "R" /\ next_ \in NREM /\ st.in_rem
    THEN [cycles |-> st.cycles + 1, in_rem |-> FALSE, rem_started |-> FALSE]
    ELSE IF current = "W" /\ st.in_rem
    THEN [st EXCEPT !.in_rem = FALSE]
    ELSE st

\* the body of `for i in range(1, len(sequence) - 1)`
RemStep(st, prev, current, next_) ==
    IF current = "R" /\ prev \in NREM /\ ~st.rem_started
    THEN [st EXCEPT !.rem_started = TRUE, !.in_rem = TRUE]
    ELSE IF current = "R" /\ next_ \in NREM /\ st.in_rem
    THEN [cycles |-> st.cycles + 1, in_rem |-> FALSE, rem_started |-> FALSE]
    ELSE IF current = "W" /\ st.in_rem
    THEN [st EXCEPT !.in_rem = FALSE, !.rem_started = FALSE]
    ELSE st

\* seq is 1-based here: the code's sequence[j] is seq[j + 1]
\* (iterations lo..hi, in order)
RECURSIVE RemScan(_, _, _, _)
RemScan(seq, lo, hi, st) ==
    IF lo > hi THEN st
    ELSE IF lo = hi THEN RemStep(st, seq[lo], seq[lo + 1], seq[lo + 2])
    ELSE LET mid == (lo + hi) \div 2
             left == RemScan(seq, lo, mid, st)
         IN  IF left = left THEN RemScan(seq, mid + 1, hi, left) ELSE left

\* lines 602-637: the count from the annotations read at line 601
RemCyclesOf(annotations) ==
    LET seq == CycleSequence(annotations)
    IN  IF seq = <<>> THEN 0 ELSE RemScan(seq, 1, Len(seq) - 2, ScanStart).cycles

\* 0 without a recording (lines 598-599)
calculate_rem_cycles(r) ==
    IF NoRecording(r) THEN 0 ELSE RemCyclesOf(r[1].annotations)

----------------------------------------------------------------------------
(* ArtifactProcessor.  A recording with signals has annotations with onset *)
(* and duration in tenths of a second, a sampling rate `sfreq` in Hz, and  *)
(* `n_times` samples per channel; sample k of the code (0-based) is        *)
(* element k + 1 of a mask or of a channel.                                *)

\* int(t * sfreq) for a time t in tenths of a second.  The product of the
\* doubles can truncate to another sample than the exact product only when
\* that is a whole number of samples and t is not a double (2.3 * 100 -> 229).
SampleOf(t, sfreq) ==
    IF t % 5 = 0 \/ (t * sfreq) % 10 # 0 THEN (t * sfreq) \div 10
    ELSE Trunc(Times(Seconds(t), Float(sfreq)))

\* int((onset + duration) * sfreq)
EndSampleOf(onset, duration, sfreq) ==
    IF (onset % 5 = 0 /\ duration % 5 = 0) \/ ((onset + duration) * sfreq) % 10 # 0
    THEN ((onset + duration) * sfreq) \div 10
    ELSE Trunc(Times(Plus(Seconds(onset), Seconds(duration)), Float(sfreq)))

\* -1, 0 or 1 as np.diff's end_time - start_time is below, at or above a
\* whole number of seconds: the difference of the doubles can leave the exact
\* one only in its last places (16.4 - 6.4 < 10.0)
IntervalCmp(start_time, end_time, seconds) ==
    IF end_time - start_time # 10 * seconds
    THEN (IF end_time - start_time > 10 * seconds THEN 1 ELSE -1)
    ELSE IF start_time % 5 = 0 /\ end_time % 5 = 0 THEN 0
    ELSE CmpFrac(Minus(Seconds(end_time), Seconds(start_time)), seconds, 1)


\* mask[start:end] = value
SetSlice(mask, start, end, value) ==
    [k \in 1..Len(mask) |-> IF start <= k - 1 /\ k - 1 < end THEN value ELSE mask[k]]

\* one iteration of the annotation loop of get_artifact_mask
ArtifactStep(acc, a, sfreq, total_samples) ==
    IF ~Contains(a.desc, ArtifactMarker) THEN acc
    ELSE LET start == SampleOf(a.onset, sfreq)
             end   == Min(EndSampleOf(a.onset, a.dur, sfreq), total_samples)
         IN  IF start < total_samples
             THEN [mask |-> SetSlice(acc.mask, start, end, FALSE),
                   regions |-> Append(acc.regions,
                       [start_time |-> a.onset, end_time |-> a.onset + a.dur, duration |-> a.dur])]
             ELSE acc

RECURSIVE ArtifactWalk(_, _, _, _, _)
ArtifactWalk(annotations, k, acc, sfreq, total_samples) ==
    IF k > Len(annotations) THEN acc
    ELSE ArtifactWalk(annotations, k + 1,
                      ArtifactStep(acc, annotations[k], sfreq, total_samples), sfreq, total_samples)

\* times = annotations.onset[annotations.description == marker]
HeartbeatTimes(annotations) ==
    LET IsBeat(a) == a.desc = HeartbeatMarker
        beats == SelectSeq(annotations, IsBeat)
    IN  [k \in 1..Len(beats) |-> beats[k].onset]

\* the iteration without its `if duration >= min_duration`
GapStepMaxGapOnly(acc, start_time, end_time, sfreq, total_samples) ==
    LET duration == end_time - start_time
        start_sample == SampleOf(start_time, sfreq)
        end_sample == Min(SampleOf(end_time, sfreq), total_samples)
    IN  IF IntervalCmp(start_time, end_time, 5) > 0 /\ start_sample < total_samples
        THEN [mask |-> SetSlice(acc.mask, start_sample, end_sample, TRUE),
              regions |-> Append(acc.regions,
                  [start_time |-> start_time, end_time |-> end_time,
                   duration |-> duration, type |-> "heartbeat_gap"])]
        ELSE acc

\* one iteration of `for idx in gap_indices` (max_gap 5.0 s, min_duration 10.0 s)
GapStep(acc, start_time, end_time, sfreq, total_samples) ==
    LET duration == end_time - start_time
        start_sample == SampleOf(start_time, sfreq)
        end_sample == Min(SampleOf(end_time, sfreq), total_samples)
    IN  IF /\ IntervalCmp(start_time, end_time, 5) > 0
           /\ IntervalCmp(start_time, end_time, 10) >= 0
           /\ start_sample < total_samples
        THEN [mask |-> SetSlice(acc.mask, start_sample, end_sample, TRUE),
              regions |-> Append(acc.regions,
                  [start_time |-> start_time, end_time |-> end_time,
                   duration |-> duration, type |-> "heartbeat_gap"])]
        ELSE acc

RECURSIVE GapWalk(_, _, _, _, _)
GapWalk(times, idx, acc, sfreq, total_samples) ==
    IF idx >= Len(times) THEN acc
    ELSE GapWalk(times, idx + 1,
                 GapStep(acc, times[idx], times[idx + 1], sfreq, total_samples), sfreq, total_samples)

\* ArtifactProcessor.get_heartbeat_gaps: (gap_mask, gap_regions)
\* the return statement: the mask and the regions the loop has built
GapsReturned(acc) == [mask |-> Some(acc.mask), regions |-> acc.regions]

\* the loop over the pairs of successive marker times
GapsBetween(times, sfreq, total_samples) ==
    IF Len(times) < 2 THEN [mask |-> None, regions |-> <<>>]
    ELSE GapsReturned(GapWalk(times, 1,
                              [mask |-> [k \in 1..total_samples |-> FALSE], regions |-> <<>>],
                              sfreq, total_samples))

get_heartbeat_gaps(r) ==
    IF NoRecording(r) THEN [mask |-> None, regions |-> <<>>]
    ELSE GapsBetween(HeartbeatTimes(r[1].annotations), r[1].sfreq, r[1].n_times)

\* ArtifactProcessor.get_artifact_mask: (valid_mask, artifact_regions)
\* the heartbeat gaps taken out of the mask of the artifact markers
MaskWithoutGaps(acc, gaps, total_samples) ==
    IF gaps.mask # None
    THEN [mask |-> Some([k \in 1..total_samples |-> acc.mask[k] /\ ~gaps.mask[1][k]]),
          regions |-> acc.regions \o gaps.regions]
    ELSE [mask |-> Some(acc.mask), regions |-> acc.regions]

get_artifact_mask(r) ==
    IF NoRecording(r) THEN [mask |-> None, regions |-> <<>>]
    ELSE MaskWithoutGaps(ArtifactWalk(r[1].annotations, 1,
                                      [mask |-> [k \in 1..r[1].n_times |-> TRUE], regions |-> <<>>],
                                      r[1].sfreq, r[1].n_times),
                         get_heartbeat_gaps(r), r[1].n_times)

\* edf30: one iteration of the annotation loop of get_artifact_masks
Edf30ArtifactStep(acc, a, sfreq, total_samples) ==
    IF ~Contains(a.desc, ArtifactMarker) THEN acc
    ELSE LET start_sample == SampleOf(a.onset, sfreq)
             end_sample   == Min(EndSampleOf(a.onset, a.dur, sfreq), total_samples - 1)
         IN  IF start_sample < total_samples
             THEN [mask |-> SetSlice(acc.mask, start_sample, end_sample, FALSE),
                   regions |-> Append(acc.regions,
                       [start_time |-> a.onset, end_time |-> a.onset + a.dur,
                        start_sample |-> start_sample, end_sample |-> end_sample,
                        duration |-> a.dur])]
             ELSE acc

RECURSIVE Edf30ArtifactWalk(_, _, _, _, _)
Edf30ArtifactWalk(annotations, k, acc, sfreq, total_samples) ==
    IF k > Len(annotations) THEN acc
    ELSE Edf30ArtifactWalk(annotations, k + 1,
                           Edf30ArtifactStep(acc, annotations[k], sfreq, total_samples),
                           sfreq, total_samples)

\* edf30 SleepAnalyzer.get_artifact_masks: (valid_mask, artifact_regions), (None, None) without a recording
\* the return statement: the mask and the regions the loop has built
Edf30MasksReturned(acc) == [mask |-> Some(acc.mask), regions |-> Some(acc.regions)]

edf30_get_artifact_masks(r) ==
    IF NoRecording(r) THEN [mask |-> None, regions |-> None]
    ELSE Edf30MasksReturned(Edf30ArtifactWalk(r[1].annotations, 1,
                                [mask |-> [k \in 1..r[1].n_times |-> TRUE], regions |-> <<>>],
                                r[1].sfreq, r[1].n_times))

----------------------------------------------------------------------------
(* SignalAnalyzer.  Channel roles are found by a substring test on the     *)
(* lower-cased channel name; the channel names of the model are "ECG",     *)
(* "SpO2", "Resp", "Flow" and "EEG".  The signals of the model are sampled *)
(* at 1 Hz or 2 Hz.                                                        *)

\* any(kw in ch.lower() for kw in ['ecg', 'ekg', 'electrocardiogram'])
IsEcgChannel(ch) == ch = "ECG"

\* any(x in ch.lower() for x in ['spo2', 'sao2', 'sat'])
IsSpo2Channel(ch) == ch = "SpO2"

\* any(p in ch.lower() for p in resp_keywords)
IsRespChannel(ch) == ch \in {"Resp", "Flow"}

\* raw.ch_names.index(name)
ChannelIndex(ch_names, name) ==
    CHOOSE k \in DOMAIN ch_names : ch_names[k] = name /\ \A j \in 1..(k - 1) : ch_names[j] # name

\* data, _ = raw[idx, :]; data[0] -- a fresh copy of the channel's samples
ChannelData(r, name) == r[1].data[ChannelIndex(r[1].ch_names, name)]

\* SignalAnalyzer.detect_r_peaks (psg_edf lines 144-169) on the signals of the
\* model.  On at most 100 samples the name scipy_signal, bound only by the
\* import inside the other branch, is unbound at the medfilt call; on more,
\* butter rejects the upper band edge 35 / (sfreq / 2) >= 1 of a signal
\* sampled at up to 70 Hz.  Both exceptions are caught: np.array([]).
SignalDetectRPeaks(ecg_signal, sfreq) ==
    CASE Len(ecg_signal) <= 100 -> <<>>
      [] Len(ecg_signal) > 100 /\ sfreq <= 70 -> <<>>

\* lines 121-137: the rate statistics are written only from more than 100
\* peaks
EcgRatesFrom(res, r_peaks) ==
    CASE Len(r_peaks) <= 100 -> res

\* results = {...} (line 89)
EcgResults ==
    [ avg_heart_rate |-> None, min_heart_rate |-> None, max_heart_rate |-> None,
      heart_rate_variability |-> None, tachycardia_events |-> 0, bradycardia_events |-> 0 ]

\* lines 93-99: the markers are counted only `if raw and hasattr(raw,
\* "annotations")`; a missing recording and a recording of no samples
\* (len(raw) = 0) are false there, and both counts stay 0
EcgMarkersCounted(res, r) ==
    IF NoRecording(r) THEN res
    ELSE [res EXCEPT !.tachycardia_events = @ + TachyCount(r[1].annotations),
                     !.bradycardia_events = @ + BradyCount(r[1].annotations)]

\* ecg_signal[artifact_mask[:len(ecg_signal)]], signal[mask]: the samples the
\* mask keeps, in order
RECURSIVE MaskedBetween(_, _, _, _)
MaskedBetween(samples, mask, lo, hi) ==
    IF lo > hi THEN <<>>
    ELSE IF lo = hi THEN (IF mask[lo] THEN <<samples[lo]>> ELSE <<>>)
    ELSE MaskedBetween(samples, mask, lo, (lo + hi) \div 2)
             \o MaskedBetween(samples, mask, (lo + hi) \div 2 + 1, hi)

MaskedSamples(samples, mask) == MaskedBetween(samples, mask, 1, Len(samples))

\* lines 114-119: the samples left to detect_r_peaks
EcgSelected(ecg_signal, artifact_mask) ==
    IF artifact_mask = None THEN ecg_signal ELSE MaskedSamples(ecg_signal, artifact_mask[1])

\* the body of analyze_ecg once the channel's samples are selected
EcgOnChannel(res, selected, sfreq) ==
    IF selected = <<>> THEN res ELSE EcgRatesFrom(res, SignalDetectRPeaks(selected, sfreq))

\* SignalAnalyzer.analyze_ecg.  Without a recording raw.ch_names raises and
\* the except returns the results as they are.
analyze_ecg(r) ==
    IF r = None THEN Some(EcgResults)
    ELSE IF SelectSeq(r[1].ch_names, IsEcgChannel) = <<>>
    THEN Some(EcgMarkersCounted(EcgResults, r))
    ELSE Some(EcgOnChannel(EcgMarkersCounted(EcgResults, r),
                           EcgSelected(ChannelData(r, SelectSeq(r[1].ch_names, IsEcgChannel)[1]),
                                       get_artifact_mask(r).mask),
                           r[1].sfreq))

\* the k-th smallest (k from 0) of the values at the indices in S
KthSmallest(values, S, k) ==
    CHOOSE v \in {values[j] : j \in S} :
        /\ Cardinality({j \in S : values[j] < v}) <= k
        /\ Cardinality({j \in S : values[j] <= v}) > k

\* np.percentile(x, q) as numpy computes it on doubles (method 'linear'): the
\* virtual index (n - 1) * (q / 100), its floor and the weight gamma above
\* it, then _lerp between the two order statistics, from the left when
\* gamma < 0.5 and from the right otherwise
lerp(a, b, gamma) ==
    IF a = b THEN Float(a)
    ELSE IF CmpFrac(gamma, 1, 2) < 0 THEN Plus(Float(a), Times(Float(b - a), gamma))
    ELSE Minus(Float(b), Times(Float(b - a), Minus(Float(1), gamma)))

PercentileFrom(values, S, n, virtual_index, previous_index) ==
    lerp(KthSmallest(values, S, previous_index),
         KthSmallest(values, S, Min(previous_index + 1, n - 1)),
         Minus(virtual_index, Float(previous_index)))

PercentileAt(values, S, n, virtual_index) ==
    PercentileFrom(values, S, n, virtual_index,
                   IF CmpFrac(virtual_index, n - 1, 1) >= 0 THEN n - 1
                   ELSE Trunc(virtual_index))

percentile(values, S, q) ==
    PercentileAt(values, S, Cardinality(S),
                 Times(Float(Cardinality(S) - 1), Over(Float(q), Float(100))))

\* round(float(np.percentile(x, q)), 1) in tenths.  The double is within a
\* few units in the last place of the exact interpolation, whose hundredths
\* are an integer: off a tie the nearest tenth of the exact value is the
\* result, on one the double decides.
Percentile1(values, S, q) ==
    LET n == Cardinality(S)
        k == ((n - 1) * q) \div 100
        lower == KthSmallest(values, S, k)
        upper == KthSmallest(values, S, Min(k + 1, n - 1))
        hundredths == 100 * lower + (upper - lower) * (((n - 1) * q) % 100)
    IN  IF hundredths % 10 # 5 THEN (hundredths + 5) \div 10
        ELSE RoundDecimal(percentile(values, S, q), 10)

\* round(float(np.median(x)), 1) in tenths: the middle value, or the mean of
\* the two middle values
Median1(values, S) ==
    LET n == Cardinality(S)
    IN  IF n % 2 = 1 THEN 10 * KthSmallest(values, S, n \div 2)
        ELSE 5 * (KthSmallest(values, S, n \div 2 - 1) + KthSmallest(values, S, n \div 2))

\* the samples that are in range and, when there is a mask, not masked out
Spo2Valid(spo2_values, artifact_mask, cfg) ==
    {k \in DOMAIN spo2_values :
        /\ spo2_values[k] >= cfg.min_valid /\ spo2_values[k] <= cfg.max_valid
        /\ (artifact_mask # None => artifact_mask[1][k])}

\* np.sum((spo2_values < threshold) & artifact_mask & (in range))
Spo2Below(spo2_values, artifact_mask, cfg, threshold) ==
    Cardinality({k \in Spo2Valid(spo2_values, artifact_mask, cfg) : spo2_values[k] < threshold})

\* int((below / total_valid) * (total_duration / 60) * valid_ratio), with
\* total_duration = raw.times[-1] = (n_times - 1) / sfreq and
\* valid_ratio = total_valid / n_times
TimeBelow(below, total_valid, n_times, sfreq) ==
    IF below = 0 THEN 0
    ELSE IF (below * (n_times - 1)) % (60 * sfreq * n_times) # 0
    THEN (below * (n_times - 1)) \div (60 * sfreq * n_times)
    ELSE Trunc(Times(Times(Over(Float(below), Float(total_valid)),
                           Over(Over(Float(n_times - 1), Float(sfreq)), Float(60))),
                     Over(Float(total_valid), Float(n_times))))

\* the body of analyze_spo2 once the channel's samples are read
Spo2ChannelStats(spo2_values, artifact_mask, n_times, sfreq, cfg, t90, t85) ==
    LET valid == Spo2Valid(spo2_values, artifact_mask, cfg)
        total_valid == IF artifact_mask = None THEN 0
                       ELSE Cardinality({k \in DOMAIN artifact_mask[1] : artifact_mask[1][k]})
        timed == valid # {} /\ artifact_mask # None /\ total_valid > 0
    IN  [ avg_spo2 |-> IF valid = {} THEN None ELSE Some(Median1(spo2_values, valid)),
          min_spo2 |-> IF valid = {} THEN None ELSE Some(Percentile1(spo2_values, valid, 1)),
          spo2_baseline |-> IF valid = {} THEN None ELSE Some(Percentile1(spo2_values, valid, 90)),
          time_below_spo2_90 |->
              IF timed THEN TimeBelow(Spo2Below(spo2_values, artifact_mask, cfg, t90),
                                      total_valid, n_times, sfreq)
              ELSE 0,
          time_below_spo2_85 |->
              IF timed THEN TimeBelow(Spo2Below(spo2_values, artifact_mask, cfg, t85),
                                      total_valid, n_times, sfreq)
              ELSE 0 ]

\* stats = {...}: the result without an SpO2 channel
Spo2Degraded ==
    [ avg_spo2 |-> None, min_spo2 |-> None, spo2_baseline |-> None,
      time_below_spo2_90 |-> 0, time_below_spo2_85 |-> 0 ]

\* analyze_spo2 with the two thresholds exchanged
analyze_spo2_thresholds_exchanged(r) ==
    LET spo2_channels == SelectSeq(r[1].ch_names, IsSpo2Channel)
    IN  IF spo2_channels = <<>> THEN Some(Spo2Degraded)
        ELSE Some(Spo2ChannelStats(ChannelData(r, spo2_channels[1]), get_artifact_mask(r).mask,
                                   r[1].n_times, r[1].sfreq, CONFIG.spo2,
                                   CONFIG.spo2.threshold_85, CONFIG.spo2.threshold_90))

\* analyze_spo2 raising on a recording without an SpO2 channel
analyze_spo2_channel_required(r) ==
    LET spo2_channels == SelectSeq(r[1].ch_names, IsSpo2Channel)
    IN  IF spo2_channels = <<>> THEN None
        ELSE Some(Spo2ChannelStats(ChannelData(r, spo2_channels[1]), get_artifact_mask(r).mask,
                                   r[1].n_times, r[1].sfreq, CONFIG.spo2,
                                   CONFIG.spo2.threshold_90, CONFIG.spo2.threshold_85))

\* SignalAnalyzer.analyze_spo2 (the mask is built first; without a matching
\* channel it is not used)
analyze_spo2(r) ==
    LET spo2_channels == SelectSeq(r[1].ch_names, IsSpo2Channel)
    IN  IF spo2_channels = <<>> THEN Some(Spo2Degraded)
        ELSE Some(Spo2ChannelStats(ChannelData(r, spo2_channels[1]), get_artifact_mask(r).mask,
                                   r[1].n_times, r[1].sfreq, CONFIG.spo2,
                                   CONFIG.spo2.threshold_90, CONFIG.spo2.threshold_85))

\* edf30 SleepAnalyzer.analyze_spo2_channel_fast: the same computation on the
\* edf30 mask, plus the number of artifact regions
edf30_analyze_spo2_channel_fast(r) ==
    LET spo2_channels == SelectSeq(r[1].ch_names, IsSpo2Channel)
        masks == edf30_get_artifact_masks(r)
        degraded == [f \in DOMAIN Spo2Degraded \cup {"artifact_regions_excluded"} |->
                        IF f = "artifact_regions_excluded" THEN 0 ELSE Spo2Degraded[f]]
    IN  IF spo2_channels = <<>> THEN degraded
        ELSE LET st == Spo2ChannelStats(ChannelData(r, spo2_channels[1]), masks.mask,
                                        r[1].n_times, r[1].sfreq, CONFIG.spo2,
                                        CONFIG.spo2.threshold_90, CONFIG.spo2.threshold_85)
             IN  [f \in DOMAIN degraded |->
                     IF f = "artifact_regions_excluded"
                     THEN (IF masks.mask # None THEN Len(masks.regions[1]) ELSE 0)
                     ELSE st[f]]

----------------------------------------------------------------------------
(* SignalAnalyzer: respiration.  preprocess_resp subtracts the median and   *)
(* divides by the standard deviation, and analyze_breathing subtracts the  *)
(* mean and divides by the standard deviation plus 1e-8: the signal        *)
(* find_peaks sees is z[k] = (x[k] - mean(x)) / (std(x) * (1 + 1e-8)) of   *)
(* the samples x handed to preprocess_resp, up to the last places of the   *)
(* doubles.  The model keeps the samples x, which are whole numbers, and   *)
(* decides every test on z exactly: equal samples give equal z, a larger   *)
(* sample a larger z, and z >= t (or a difference of two z >= t) holds     *)
(* exactly if the square of the numerator is greater than t * t times the  *)
(* variance, the 1e-8 leaving equality on the other side.                  *)

RECURSIVE SumOfSamples(_, _)
SumOfSamples(x, k) == IF k > Len(x) THEN 0 ELSE x[k] + SumOfSamples(x, k + 1)

RECURSIVE SumOfSquares(_, _)
SumOfSquares(x, k) == IF k > Len(x) THEN 0 ELSE x[k] * x[k] + SumOfSquares(x, k + 1)

\* n * n times the variance of the samples (np.std squared)
ScaledVariance(x) == Len(x) * SumOfSquares(x, 1) - SumOfSamples(x, 1) * SumOfSamples(x, 1)

\* z[k] >= num / den
NormalizedAtLeast(x, k, num, den) ==
    /\ Len(x) * x[k] - SumOfSamples(x, 1) > 0
    /\ den * den * (Len(x) * x[k] - SumOfSamples(x, 1)) * (Len(x) * x[k] - SumOfSamples(x, 1))
           > num * num * ScaledVariance(x)

\* (a difference of `samples` between two samples, divided as z is) >= num / den
NormalizedRiseAtLeast(x, samples, num, den) ==
    /\ samples > 0
    /\ den * den * Len(x) * Len(x) * samples * samples > num * num * ScaledVariance(x)

\* SignalAnalyzer.preprocess_resp: None for no sample and for a flat signal
\* (signal_std < 1e-8: the deviation of whole numbers is 0 or far above);
\* with the upper band edge filter_high / (sfreq / 2) at 1.0 or above, as for
\* every signal of the model (at most 2 Hz), the normalized signal is returned
\* unfiltered (lines 308-309).  filter_low and filter_high are in tenths of a Hz.
preprocess_resp(signal_data, sfreq, cfg) ==
    IF Len(signal_data) = 0 THEN None
    ELSE IF \A k \in DOMAIN signal_data : signal_data[k] = signal_data[1] THEN None
    ELSE CASE 2 * cfg.filter_low >= 10 * sfreq \/ 2 * cfg.filter_high >= 10 * sfreq ->
                  Some(signal_data)

\* scipy.signal._local_maxima_1d (1-based places): `while i_ahead < i_max and
\* x[i_ahead] == x[i]: i_ahead += 1`
RECURSIVE PlateauEnd(_, _, _)
PlateauEnd(x, i_ahead, value) ==
    IF i_ahead < Len(x) /\ x[i_ahead] = value THEN PlateauEnd(x, i_ahead + 1, value)
    ELSE i_ahead

\* the walk `while i < i_max`: a sample above the one before it, or the run of
\* equal samples it starts, is a peak at the middle of the run when the
\* sample after the run is lower; the first and the last sample never are
RECURSIVE LocalMaximaFrom(_, _)
MaximumAt(x, at, i_ahead) ==
    IF x[i_ahead] < x[at] THEN <<(at + i_ahead - 1) \div 2>> \o LocalMaximaFrom(x, i_ahead + 1)
    ELSE LocalMaximaFrom(x, at + 1)

LocalMaximaFrom(x, at) ==
    IF at >= Len(x) THEN <<>>
    ELSE IF x[at - 1] < x[at] THEN MaximumAt(x, at, PlateauEnd(x, at + 1, x[at]))
    ELSE LocalMaximaFrom(x, at + 1)

LocalMaxima(x) == LocalMaximaFrom(x, 2)

\* the smallest of the samples at the places in S
LowestIn(x, S) == CHOOSE v \in {x[k] : k \in S} : \A k \in S : v <= x[k]

\* scipy.signal.peak_prominences: the peak's height above the higher of the
\* two lowest samples between it and the nearest higher sample on either
\* side, inside the window of wlen // 2 samples to either side when wlen >= 2
PeakProminence(x, peak, wlen) ==
    LET i_min == IF wlen >= 2 THEN Max(peak - wlen \div 2, 1) ELSE 1
        i_max == IF wlen >= 2 THEN Min(peak + wlen \div 2, Len(x)) ELSE Len(x)
        higher_left == {j \in i_min..peak : x[j] > x[peak]}
        higher_right == {j \in peak..i_max : x[j] > x[peak]}
        left == IF higher_left = {} THEN i_min
                ELSE 1 + CHOOSE j \in higher_left : \A q \in higher_left : q <= j
        right == IF higher_right = {} THEN i_max
                 ELSE (CHOOSE j \in higher_right : \A q \in higher_right : j <= q) - 1
    IN  x[peak] - Max(LowestIn(x, left..peak), LowestIn(x, peak..right))

\* scipy.signal.find_peaks(z, distance, prominence, height[, width, wlen]):
\* the local maxima at least `height` high and `prominence` prominent
\* (hundredths).  A distance below 1 raises; the distance 1 and the width 0
\* of the model's sampling rates remove no peak (local maxima are at least two
\* samples apart, and no width is below 0).
find_peaks(x, height, prominence, wlen) ==
    LET Kept(p) == /\ NormalizedAtLeast(x, p, height, 100)
                   /\ NormalizedRiseAtLeast(x, PeakProminence(x, p, wlen), prominence, 100)
    IN  SelectSeq(LocalMaxima(x), Kept)

\* int(0.6 * sfreq), int(0.2 * sfreq): the product of the doubles can
\* truncate to another number than the product without rounding only when
\* that is whole
MinDistance(sfreq) ==
    IF (6 * sfreq) % 10 # 0 THEN (6 * sfreq) \div 10
    ELSE Trunc(Times(Over(Float(6), Float(10)), Float(sfreq)))
PeakWidth(sfreq) ==
    IF (2 * sfreq) % 10 # 0 THEN (2 * sfreq) \div 10
    ELSE Trunc(Times(Over(Float(2), Float(10)), Float(sfreq)))

\* a breathing rate is held as the number of samples between the two peaks
\* it comes from: 60.0 / (samples / sfreq)
RateOf(samples, sfreq) == Over(Float(60), Over(Float(samples), Float(sfreq)))

\* rate >= bound, rate <= bound for a whole bound: the quotients are rounded
\* to the nearest double and the bound is a double, so the exact quotient
\* decides
RateAtLeast(samples, sfreq, bound) == 60 * sfreq >= bound * samples
RateAtMost(samples, sfreq, bound) == 60 * sfreq <= bound * samples

\* the rates from the lowest up: a longer gap is a lower rate
RECURSIVE RatesInOrder(_)
RatesInOrder(gaps) ==
    IF gaps = <<>> THEN <<>>
    ELSE LET k == CHOOSE j \in DOMAIN gaps : \A q \in DOMAIN gaps : gaps[q] <= gaps[j]
         IN  <<gaps[k]>> \o RatesInOrder([j \in 1..(Len(gaps) - 1) |->
                                              IF j < k THEN gaps[j] ELSE gaps[j + 1]])

\* numpy's _lerp on two doubles
LerpRates(a, b, gamma) ==
    IF CmpFrac(gamma, 1, 2) < 0 THEN Plus(a, Times(Minus(b, a), gamma))
    ELSE Minus(b, Times(Minus(b, a), Minus(Float(1), gamma)))

RatePercentileFrom(ordered, sfreq, virtual_index, previous_index) ==
    LerpRates(RateOf(ordered[previous_index + 1], sfreq),
              RateOf(ordered[Min(previous_index + 1, Len(ordered) - 1) + 1], sfreq),
              Minus(virtual_index, Float(previous_index)))

RatePercentileAt(ordered, sfreq, virtual_index) ==
    RatePercentileFrom(ordered, sfreq, virtual_index,
                       IF CmpFrac(virtual_index, Len(ordered) - 1, 1) >= 0 THEN Len(ordered) - 1
                       ELSE Trunc(virtual_index))

\* np.percentile(rates, q)
RatePercentile(gaps, sfreq, q) ==
    RatePercentileAt(RatesInOrder(gaps), sfreq,
                     Times(Float(Len(gaps) - 1), Over(Float(q), Float(100))))

\* -1, 0 or 1 as the double x is below, at or above the double y
CmpDoubles(x, y) ==
    BigCmp(BigShl(x.m, x.e - Min(x.e, y.e)), BigShl(y.m, y.e - Min(x.e, y.e)))

\* (rates >= lower_bound) & (rates <= upper_bound); a lower bound below 0
\* (given as None) is below every rate
BetweenFences(gaps, sfreq, lower_bound, upper_bound) ==
    LET Inside(samples) ==
            /\ lower_bound # None =>
                   CmpDoubles(Value(RateOf(samples, sfreq)), lower_bound[1]) >= 0
            /\ CmpDoubles(Value(RateOf(samples, sfreq)), upper_bound) <= 0
    IN  SelectSeq(gaps, Inside)

\* lower_bound = q1 - 1.5 * iqr, upper_bound = q3 + 1.5 * iqr, from
\* spread = 1.5 * iqr
FencedBy(gaps, sfreq, q1, q3, spread) ==
    CHOOSE kept \in {BetweenFences(gaps, sfreq, lower_bound, upper_bound) :
                        lower_bound \in {IF CmpDoubles(spread, q1) > 0 THEN None
                                         ELSE Some(Value(Minus(Val(q1), Val(spread))))},
                        upper_bound \in {Value(Plus(Val(q3), Val(spread)))}} : TRUE

\* iqr = q3 - q1 and the rates inside the fences, on the doubles
WithinFences(gaps, sfreq, q1, q3) ==
    CHOOSE kept \in {FencedBy(gaps, sfreq, q1, q3, spread) :
                        spread \in {Value(Times(Over(Float(3), Float(2)),
                                                Minus(Val(q3), Val(q1))))}} : TRUE

\* The quartile q (25 or 75) of the rates without rounding: 60 * sfreq * a / b,
\* between the rates of the gaps ordered[k + 1] and the next, k and the
\* quarters above it from (n - 1) * q / 100.  It is the double of a rate
\* itself (`plain`, of the gap `gap`) when the two rates are the same or the
\* weight is 0.
QuartileBetween(lower_gap, upper_gap, quarters) ==
    [ a |-> 4 * upper_gap + (lower_gap - upper_gap) * quarters,
      b |-> 4 * lower_gap * upper_gap,
      plain |-> lower_gap = upper_gap \/ quarters = 0,
      gap |-> lower_gap ]

Quartile(ordered, q) ==
    QuartileBetween(ordered[((Len(ordered) - 1) * q) \div 100 + 1],
                    ordered[Min(((Len(ordered) - 1) * q) \div 100 + 1, Len(ordered) - 1) + 1],
                    (((Len(ordered) - 1) * q) % 100) \div 25)

\* the sign of rate - (q1 - 1.5 * iqr) and of (q3 + 1.5 * iqr) - rate without
\* rounding, for the rate of a gap
AboveLowerFence(samples, q1, q3) ==
    2 * q1.b * q3.b - samples * (5 * q1.a * q3.b - 3 * q3.a * q1.b)
BelowUpperFence(samples, q1, q3) ==
    samples * (5 * q3.a * q1.b - 3 * q1.a * q3.b) - 2 * q1.b * q3.b

\* (rate >= lower_bound) & (rate <= upper_bound) for the rate of one gap.  The
\* doubles are within a few units in the last place of the values without
\* rounding: off a fence those decide; with both quartiles the same rate the
\* fences are that rate's double; on a fence otherwise the doubles decide.
InsideFences(samples, gaps, sfreq, q1, q3) ==
    IF q1.plain /\ q3.plain /\ q1.gap = q3.gap THEN samples = q1.gap
    ELSE IF AboveLowerFence(samples, q1, q3) < 0 \/ BelowUpperFence(samples, q1, q3) < 0
    THEN FALSE
    ELSE IF AboveLowerFence(samples, q1, q3) > 0 /\ BelowUpperFence(samples, q1, q3) > 0
    THEN TRUE
    ELSE WithinFences(<<samples>>, sfreq, Value(RatePercentile(gaps, sfreq, 25)),
                      Value(RatePercentile(gaps, sfreq, 75))) # <<>>

\* valid_rates[(valid_rates >= lower_bound) & (valid_rates <= upper_bound)]
FilteredByQuartiles(gaps, sfreq, q1, q3) ==
    LET Inside(samples) == InsideFences(samples, gaps, sfreq, q1, q3)
    IN  SelectSeq(gaps, Inside)

\* lines 256-261 and 351-354: q1, q3 = np.percentile(rates, [25, 75]) and the
\* rates inside the fences, when there are more than 5 rates
IqrFiltered(gaps, sfreq) ==
    IF Len(gaps) > 5
    THEN CHOOSE kept \in {FilteredByQuartiles(gaps, sfreq, Quartile(ordered, 25),
                                              Quartile(ordered, 75)) :
                             ordered \in {RatesInOrder(gaps)}} : TRUE
    ELSE gaps

\* lines 247-263: from the peaks to the rates returned
BreathingRates(peaks, sfreq) ==
    LET InSeconds(samples) == 2 * samples >= sfreq /\ samples <= 10 * sfreq
        InPerMinute(samples) == RateAtLeast(samples, sfreq, 6) /\ RateAtMost(samples, sfreq, 60)
        valid_intervals == SelectSeq([k \in 1..(Len(peaks) - 1) |-> peaks[k + 1] - peaks[k]],
                                     InSeconds)
    IN  IF Len(valid_intervals) < 2 THEN <<>>
        ELSE IqrFiltered(SelectSeq(valid_intervals, InPerMinute), sfreq)

\* the peaks of the first find_peaks call, or of the second when the first
\* finds fewer than 3
BreathingPeaks(first, x) == IF Len(first) < 3 THEN find_peaks(x, 1, 2, 0) ELSE first

\* lines 244-245: no rate from fewer than 3 peaks
BreathingFromPeaks(peaks, sfreq) ==
    IF Len(peaks) < 3 THEN <<>> ELSE BreathingRates(peaks, sfreq)

\* SignalAnalyzer.analyze_breathing on the samples preprocess_resp was given:
\* nothing from less than 20 s of signal; find_peaks raises on a distance
\* below 1 (caught, [])
analyze_breathing(x, sfreq) ==
    IF Len(x) < 20 * sfreq THEN <<>>
    ELSE IF MinDistance(sfreq) < 1 THEN <<>>
    ELSE CASE MinDistance(sfreq) = 1 /\ PeakWidth(sfreq) = 0 ->
                  BreathingFromPeaks(BreathingPeaks(find_peaks(x, 2, 5, 2 * sfreq), x), sfreq)

\* lines 279-284: the samples handed to preprocess_resp
RespSelected(resp_signal, artifact_mask) ==
    IF artifact_mask # None /\ Len(artifact_mask[1]) = Len(resp_signal)
    THEN MaskedSamples(resp_signal, artifact_mask[1])
    ELSE resp_signal

\* lines 286-287 of analyze_resp_channel
RespChannelRates(selected, sfreq, cfg) ==
    IF selected = <<>> THEN <<>>
    ELSE IF preprocess_resp(selected, sfreq, cfg) = None THEN <<>>
    ELSE analyze_breathing(selected, sfreq)

\* SignalAnalyzer.analyze_resp_channel
analyze_resp_channel(r, channel_name, cfg) ==
    RespChannelRates(RespSelected(ChannelData(r, channel_name), get_artifact_mask(r).mask),
                     r[1].sfreq, cfg)

\* stats = {...} (line 322)
RespStats == [ avg_resp_rate |-> None, min_resp_rate |-> None, max_resp_rate |-> None ]

\* round(x, 1) in tenths of the double of `expr`, which without rounding is
\* num / den tenths: the double is within a few units in the last place of
\* that, so off a tie the nearest tenth of it is the result, and on one the
\* double decides
RoundedTenths(num, den, expr) ==
    IF (2 * num) % (2 * den) # den THEN (2 * num + den) \div (2 * den)
    ELSE RoundDecimal(expr, 10)

\* round(float(np.median(final_rates)), 1) in tenths
RateMedian1(ordered, sfreq) ==
    IF Len(ordered) % 2 = 1
    THEN RoundedTenths(600 * sfreq, ordered[Len(ordered) \div 2 + 1],
                       RateOf(ordered[Len(ordered) \div 2 + 1], sfreq))
    ELSE RoundedTenths(600 * sfreq * (ordered[Len(ordered) \div 2]
                                      + ordered[Len(ordered) \div 2 + 1]),
                       2 * ordered[Len(ordered) \div 2] * ordered[Len(ordered) \div 2 + 1],
                       Over(Plus(RateOf(ordered[Len(ordered) \div 2], sfreq),
                                 RateOf(ordered[Len(ordered) \div 2 + 1], sfreq)),
                            Float(2)))

\* round(float(np.percentile(final_rates, q)), 1) in tenths, between the rates
\* of two gaps with the weight hundredths / 100
RateBetween1(lower_gap, upper_gap, hundredths, sfreq, expr) ==
    RoundedTenths(600 * sfreq * (100 * upper_gap + (lower_gap - upper_gap) * hundredths),
                  100 * lower_gap * upper_gap, expr)

RatePercentile1(ordered, sfreq, q) ==
    RateBetween1(ordered[((Len(ordered) - 1) * q) \div 100 + 1],
                 ordered[Min(((Len(ordered) - 1) * q) \div 100 + 1, Len(ordered) - 1) + 1],
                 ((Len(ordered) - 1) * q) % 100, sfreq,
                 RatePercentile(ordered, sfreq, q))

\* stats.update({...}) (lines 361-365), from the rates in order
RespStatsOf(ordered, sfreq) ==
    [ avg_resp_rate |-> Some(RateMedian1(ordered, sfreq)),
      min_resp_rate |-> Some(RatePercentile1(ordered, sfreq, 10)),
      max_resp_rate |-> Some(RatePercentile1(ordered, sfreq, 90)) ]

\* lines 360-365
RespStatsFrom(final_rates, sfreq) ==
    IF Len(final_rates) = 0 THEN RespStats
    ELSE CHOOSE st \in {RespStatsOf(ordered, sfreq) :
                           ordered \in {RatesInOrder(final_rates)}} : TRUE

\* line 358: final_rates if len(final_rates) >= 3 else valid_rates
FinalRates(filtered, valid_rates) == IF Len(filtered) >= 3 THEN filtered ELSE valid_rates

\* lines 340-344: the rates of the configured range, or those from 6 to 40
\* when fewer than 5 are in it
ValidRespRates(best_rates, sfreq, cfg) ==
    LET Configured(samples) == /\ RateAtLeast(samples, sfreq, cfg.min_rate)
                               /\ RateAtMost(samples, sfreq, cfg.max_rate)
        Wide(samples) == RateAtLeast(samples, sfreq, 6) /\ RateAtMost(samples, sfreq, 40)
    IN  IF Len(SelectSeq(best_rates, Configured)) < 5 THEN SelectSeq(best_rates, Wide)
        ELSE SelectSeq(best_rates, Configured)

\* lines 346-365, from the valid rates
StatsOfValidRates(valid_rates, sfreq) ==
    IF valid_rates = <<>> THEN RespStats
    ELSE CHOOSE st \in {RespStatsFrom(final_rates, sfreq) :
                           final_rates \in {FinalRates(IqrFiltered(valid_rates, sfreq),
                                                       valid_rates)}} : TRUE

\* lines 337-365 of analyze_respiration, from the rates of its channels
RespirationStats(best_rates, sfreq, cfg) ==
    IF best_rates = <<>> THEN RespStats
    ELSE CHOOSE st \in {StatsOfValidRates(valid_rates, sfreq) :
                           valid_rates \in {ValidRespRates(best_rates, sfreq, cfg)}} : TRUE

\* the first three channels that match a respiration keyword
RespChannels(ch_names) == SubSeq(SelectSeq(ch_names, IsRespChannel), 1,
                                 Min(3, Len(SelectSeq(ch_names, IsRespChannel))))

\* best_rates after the loop over the channels
RECURSIVE BestRates(_, _, _, _)
BestRates(r, channels, k, cfg) ==
    IF k > Len(channels) THEN <<>>
    ELSE analyze_resp_channel(r, channels[k], cfg) \o BestRates(r, channels, k + 1, cfg)

\* SignalAnalyzer.analyze_respiration.  Without a recording raw.ch_names
\* raises and the except returns the stats as they are.
analyze_respiration(r) ==
    IF r = None THEN Some(RespStats)
    ELSE IF RespChannels(r[1].ch_names) = <<>> THEN Some(RespStats)
    ELSE CHOOSE st \in {Some(RespirationStats(best_rates, r[1].sfreq, CONFIG.respiration)) :
                           best_rates \in {BestRates(r, RespChannels(r[1].ch_names), 1,
                                                     CONFIG.respiration)}} : TRUE

----------------------------------------------------------------------------
(* SleepAnalyzer.calculate_sleep_quality *)

\* `for threshold, points in weights.items(): if value >= threshold: score += points; break`
RECURSIVE TierGE(_, _, _)
TierGE(weights, k, value) ==
    IF k > Len(weights) THEN 0
    ELSE IF FracGE(value, weights[k][1]) THEN weights[k][2]
    ELSE TierGE(weights, k + 1, value)

\* the `<` loop giving no points to an index of exactly 0
RECURSIVE TierLTNonZero(_, _, _)
TierLTNonZero(weights, k, value) ==
    IF k > Len(weights) \/ FracIsZero(value) THEN 0
    ELSE IF FracLT(value, weights[k][1]) THEN weights[k][2]
    ELSE TierLTNonZero(weights, k + 1, value)

\* the `<` loop without its break: every tier the value is below adds its points
RECURSIVE TierLTNoBreak(_, _, _)
TierLTNoBreak(weights, k, value) ==
    IF k > Len(weights) THEN 0
    ELSE (IF FracLT(value, weights[k][1]) THEN weights[k][2] ELSE 0)
         + TierLTNoBreak(weights, k + 1, value)

\* the same loop with `if value < threshold`
RECURSIVE TierLT(_, _, _)
TierLT(weights, k, value) ==
    IF k > Len(weights) THEN 0
    ELSE IF FracLT(value, weights[k][1]) THEN weights[k][2]
    ELSE TierLT(weights, k + 1, value)

\* the penalty with `>=` for `>`; the all-N2 scenario C10 must tell the two apart
HeartPenaltyInclusive(tachycardia_events, bradycardia_events) ==
    IF tachycardia_events >= 10 \/ bradycardia_events >= 10 THEN 15
    ELSE IF tachycardia_events >= 5 \/ bradycardia_events >= 5 THEN 10
    ELSE IF tachycardia_events >= 0 \/ bradycardia_events >= 0 THEN 5
    ELSE 0

\* if tachy > 10 or brady > 10: 15; elif > 5: 10; elif > 0: 5
HeartPenalty(tachycardia_events, bradycardia_events) ==
    IF tachycardia_events > 10 \/ bradycardia_events > 10 THEN 15
    ELSE IF tachycardia_events > 5 \/ bradycardia_events > 5 THEN 10
    ELSE IF tachycardia_events > 0 \/ bradycardia_events > 0 THEN 5
    ELSE 0

CycleBonus(rem_cycles) ==
    IF rem_cycles >= 4 THEN 10 ELSE IF rem_cycles >= 3 THEN 5 ELSE 0

\* overall_score = min(score, 100), in hundredths
OverallScore(score) == Min(score, 10000)

QualityStatus(overall_score) ==
    IF overall_score >= 8500 THEN "otlichnoe"
    ELSE IF overall_score >= 7000 THEN "horoshee"
    ELSE IF overall_score >= 5000 THEN "udovletvoritelnoe"
    ELSE "plohoe"

\* lines 650-694: the raw sum `score` before the cap, in hundredths, from what
\* the seven calls of lines 643-649 returned (c, keyed by the local's name)
QualityRawScoreOf(c) ==
    LET cfg == CONFIG.sleep_quality
        efficiency_val == Get(c.efficiency, "sleep_efficiency", Zero)
        n3_percentage == Get(c.architecture, "n3_percentage", Zero)
        rem_percentage == Get(c.architecture, "rem_percentage", Zero)
        ahi == Get(c.sleep_indices, "ahi", Zero)
        arousal_index == Get(c.fragmentation, "arousal_index", Zero)
        rem_score == Get(c.rem_quality, "rem_quality_score", 0)
        hr_stats == c.hr_stats
        rem_cycles == c.rem_cycles
    IN  100 * ( TierGE(cfg.efficiency_weights, 1, efficiency_val)
              + (IF FracGE(n3_percentage, cfg.n3_threshold) THEN 15 ELSE 0)
              + (IF FracGE(rem_percentage, cfg.rem_threshold) THEN 15 ELSE 0)
              + TierLT(cfg.ahi_weights, 1, ahi)
              + TierLT(cfg.arousal_weights, 1, arousal_index) )
        + 15 * rem_score
        - 100 * HeartPenalty(Get(hr_stats, "tachycardia_events", 0),
                             Get(hr_stats, "bradycardia_events", 0))
        + 100 * CycleBonus(rem_cycles)

\* lines 696-712: the cap, the status and the dict
QualityReturned(overall_score) ==
    Some([ overall_sleep_quality |-> IntOfHundredths(overall_score),
           sleep_quality_status |-> QualityStatus(overall_score) ])

SleepQualityOf(c) == QualityReturned(OverallScore(QualityRawScoreOf(c)))

\* the seven calls on one recording and one table
QualityCallsOn(r, stg) ==
    [ efficiency |-> calculate_efficiency(stg),
      architecture |-> calculate_architecture(stg),
      sleep_indices |-> calculate_indices(r, stg),
      fragmentation |-> calculate_fragmentation(r, stg),
      rem_quality |-> calculate_rem_quality(r),
      hr_stats |-> analyze_ecg(r),
      rem_cycles |-> calculate_rem_cycles(r) ]

QualityRawScore(r, stg) == QualityRawScoreOf(QualityCallsOn(r, stg))

\* {} (here None) without a recording or without a stage table (lines 640-641)
calculate_sleep_quality(r, stg) ==
    IF NoRecording(r) \/ stg = None THEN None ELSE SleepQualityOf(QualityCallsOn(r, stg))

----------------------------------------------------------------------------
(* SleepAnalyzer.export_hypnogram *)

\* a mapping that also gives the Unknown stage a symbol
HypnogramMappingWithUnknown ==
    (StageW :> "W") @@ (Stage1 :> "1") @@ (Stage2 :> "2") @@
    (Stage3 :> "3") @@ (StageR :> "R") @@ (StageUnknown :> "U")

HypnogramMapping ==
    (StageW :> "W") @@ (Stage1 :> "1") @@ (Stage2 :> "2") @@
    (Stage3 :> "3") @@ (StageR :> "R")

HypnogramSequence(annotations) ==
    LET kept == SelectSeq(annotations,
                    LAMBDA a : a.desc \in DOMAIN HypnogramMapping /\ IsEpochDuration(a.dur))
    IN  [k \in 1..Len(kept) |-> HypnogramMapping[kept[k].desc]]

\* lines 719-733: the dict from the annotations read at line 718
HypnogramOf(annotations) ==
    LET seq == HypnogramSequence(annotations)
    IN  Some([e |-> Len(seq), d |-> 30, s |-> seq])

\* None without a recording (lines 715-716)
export_hypnogram(r) ==
    IF NoRecording(r) THEN None ELSE HypnogramOf(r[1].annotations)

----------------------------------------------------------------------------
(* SleepAnalyzer.generate_sql and create_sql_update *)

\* int(x): truncation toward zero, of the double where the value carries one
IntOfFrac(q) ==
    IF q.by = "double" THEN Trunc(Val(q.double))
    ELSE IF q.n >= 0 THEN q.n \div q.d ELSE -((-q.n) \div q.d)

\* the UPDATE statement: the SET list keyed by the study's UUID and file
create_sql_update(data, uid, edf_path) ==
    [uuid |-> uid, file |-> edf_path, data |-> data]

\* round(architecture.get(key, 0), 2) with `architecture = ... or {}`: the bundle's
\* percentage as a Python value.  It is a number on every path, the default of
\* .get standing in when calculate_architecture returned None.
BundlePercentage(architecture, key) == Some(Round2(Get(architecture, key, Zero)))

\* lines 760-827, the dict sql_data, from the locals of generate_sql (c, keyed
\* by the local's name: what each call of lines 739-752 returned).  The
\* artifact statistics and the constant fields data_quality / analysis_notes
\* are not part of the record.
SqlDataFrom(c) ==
    LET st == IF c.stages = None THEN EmptyStages ELSE c.stages[1]
        efficiency == c.efficiency
        architecture == c.architecture
        fragmentation == c.fragmentation
        respiratory_events == c.respiratory_events
        sleep_indices == c.sleep_indices
        rem_quality == c.rem_quality
        hr_stats == c.hr_stats
        spo2_stats == c.spo2_stats
        resp_stats == c.resp_stats
        latencies == c.latencies
        sleep_quality == c.sleep_quality
        hypnogram == c.hypnogram
        rem_cycles == c.rem_cycles
        total_sleep == Get(efficiency, "total_sleep_time", 0)
        sol == Get(latencies, "sleep_onset_latency", None)
        rl == Get(latencies, "rem_latency", None)
        density == Get(rem_quality, "rem_density", Zero)
    IN  [ total_sleep_time |-> IntOfTenths(total_sleep),
          total_bed_time |-> IntOfTenths(Get(efficiency, "total_bed_time", 0)),
          sleep_efficiency |-> Round2(Get(efficiency, "sleep_efficiency", Zero)),
          sleep_latency |-> IF sol # None /\ ~FracIsZero(sol[1]) THEN IntOfFrac(sol[1]) ELSE 0,
          wake_after_sleep_onset |-> IntOfTenths(Get(efficiency, "wake_after_sleep_onset", 0)),
          n1_minutes |-> IntOfTenths(st["N1"].minutes),
          n2_minutes |-> IntOfTenths(st["N2"].minutes),
          n3_minutes |-> IntOfTenths(st["N3"].minutes),
          rem_minutes |-> IntOfTenths(st["REM"].minutes),
          n1_percentage |-> BundlePercentage(architecture, "n1_percentage")[1],
          n2_percentage |-> BundlePercentage(architecture, "n2_percentage")[1],
          n3_percentage |-> BundlePercentage(architecture, "n3_percentage")[1],
          rem_percentage |-> BundlePercentage(architecture, "rem_percentage")[1],
          rem_latency |-> IF rl # None /\ ~FracIsZero(rl[1]) THEN Some(IntOfFrac(rl[1])) ELSE None,
          \* stages['REM']['count'] if stages else None
          rem_epochs |-> IF c.stages = None THEN None ELSE st["REM"].count,
          rem_cycles |-> rem_cycles,
          \* rem_quality.get('rem_events'): None when calculate_rem_quality gave None
          rem_events |->
              IF rem_quality = None THEN None ELSE Some(rem_quality[1].rem_events),
          rem_density |-> IF ~FracIsZero(density) THEN Some(Round2(density)) ELSE None,
          rem_quality_score |->
              IF rem_quality = None THEN None ELSE Some(rem_quality[1].rem_quality_score),
          total_apneas |-> Get(respiratory_events, "apneas", 0),
          obstructive_apneas |-> Get(respiratory_events, "obstructive_apneas", 0),
          central_apneas |-> Get(respiratory_events, "central_apneas", 0),
          mixed_apneas |-> Get(respiratory_events, "mixed_apneas", 0),
          total_hypopneas |-> Get(respiratory_events, "hypopneas", 0),
          obstructive_hypopneas |-> Get(respiratory_events, "obstructive_hypopneas", 0),
          central_hypopneas |-> Get(respiratory_events, "central_hypopneas", 0),
          mixed_hypopneas |-> Get(respiratory_events, "mixed_hypopneas", 0),
          total_desaturations |-> Get(respiratory_events, "desaturations", 0),
          total_snores |-> Get(respiratory_events, "snoring", 0),
          cheyne_stokes_episodes |-> Get(respiratory_events, "cheyne_stokes", 0),
          ahi |-> Round2(Get(sleep_indices, "ahi", Zero)),
          ahi_obstructive |-> Round2(Get(sleep_indices, "ahi_obstructive", Zero)),
          ahi_central |-> Round2(Get(sleep_indices, "ahi_central", Zero)),
          ahi_mixed |-> Round2(Get(sleep_indices, "ahi_mixed", Zero)),
          odi |-> Round2(Get(sleep_indices, "odi", Zero)),
          snore_index |-> Round2(Get(sleep_indices, "snoring_index", Zero)),
          avg_spo2 |-> Get(spo2_stats, "avg_spo2", None),
          min_spo2 |-> Get(spo2_stats, "min_spo2", None),
          spo2_baseline |-> Get(spo2_stats, "spo2_baseline", None),
          time_below_spo2_90 |-> Get(spo2_stats, "time_below_spo2_90", 0),
          time_below_spo2_85 |-> Get(spo2_stats, "time_below_spo2_85", 0),
          avg_heart_rate |-> Get(hr_stats, "avg_heart_rate", None),
          min_heart_rate |-> Get(hr_stats, "min_heart_rate", None),
          max_heart_rate |-> Get(hr_stats, "max_heart_rate", None),
          heart_rate_variability |-> Get(hr_stats, "heart_rate_variability", None),
          tachycardia_events |-> Get(hr_stats, "tachycardia_events", 0),
          bradycardia_events |-> Get(hr_stats, "bradycardia_events", 0),
          avg_resp_rate |-> Get(resp_stats, "avg_resp_rate", None),
          min_resp_rate |-> Get(resp_stats, "min_resp_rate", None),
          max_resp_rate |-> Get(resp_stats, "max_resp_rate", None),
          total_limb_movements |-> Get(fragmentation, "total_limb_movements", 0),
          periodic_limb_movements |-> Get(fragmentation, "periodic_limb_movements", 0),
          plmi |-> IF total_sleep > 0
                   THEN Round2(PerHour(Get(fragmentation, "periodic_limb_movements", 0),
                                    total_sleep))
                   ELSE 0,
          bruxism_events |-> Get(fragmentation, "bruxism_events", 0),
          total_arousals |-> Get(fragmentation, "activations", 0),
          arousal_index |-> Round2(Get(fragmentation, "arousal_index", Zero)),
          sleep_fragmentation_index |-> Round2(Get(fragmentation, "fragmentation_index", Zero)),
          overall_sleep_quality |->
              IF sleep_quality = None THEN None ELSE Some(sleep_quality[1].overall_sleep_quality),
          sleep_quality_status |->
              IF sleep_quality = None THEN None ELSE Some(sleep_quality[1].sleep_quality_status),
          hypnogram_data |-> hypnogram ]

\* the locals of generate_sql when every read of self.raw finds r and every
\* read of self.stages finds stg, stg_local being what calculate_stages returned
GenerateSqlCallsOn(r, stg_local, stg) ==
    [ stages |-> stg_local,
      efficiency |-> calculate_efficiency(stg),
      architecture |-> calculate_architecture(stg),
      fragmentation |-> calculate_fragmentation(r, stg),
      respiratory_events |-> calculate_respiratory_events(r),
      sleep_indices |-> calculate_indices(r, stg),
      rem_quality |-> calculate_rem_quality(r),
      hr_stats |-> analyze_ecg(r),
      spo2_stats |-> analyze_spo2(r),
      resp_stats |-> analyze_respiration(r),
      latencies |-> calculate_latencies(r),
      sleep_quality |-> calculate_sleep_quality(r, stg),
      hypnogram |-> export_hypnogram(r),
      rem_cycles |-> calculate_rem_cycles(r) ]

SqlDataOf(r, stg_local, stg) == SqlDataFrom(GenerateSqlCallsOn(r, stg_local, stg))

\* the dict of a run nothing interferes with
SqlData(r, stg) == SqlDataOf(r, stg, stg)

\* generate_sql(edf_path, uuid) on the recording r held in self.raw
generate_sql(r, edf_path, uid) ==
    IF NoRecording(r) THEN None
    ELSE Some(create_sql_update(SqlData(r, calculate_stages(r)), uid, edf_path))

----------------------------------------------------------------------------
(* The older pipeline, src/edf30.py: calculate_sleep_stages and             *)
(* calculate_sleep_architecture.  A Python exception is the outcome         *)
(* [raised |-> TRUE]; a normal return is [raised |-> FALSE, value |-> v].   *)

Edf30StageNames == {"Wake", "N1", "N2", "N3", "REM"}

Edf30StageMapping ==
    (StageW :> "Wake") @@ (Stage1 :> "N1") @@ (Stage2 :> "N2") @@
    (Stage3 :> "N3") @@ (StageR :> "REM")

Edf30StagesStep(st, a) ==
    IF a.desc \in DOMAIN Edf30StageMapping /\ IsEpochDuration(a.dur)
    THEN LET stage == Edf30StageMapping[a.desc]
         IN  [st EXCEPT ![stage] = [count |-> @.count + 1, minutes |-> @.minutes + 5]]
    ELSE st

RECURSIVE Edf30StagesWalk(_, _, _, _)
Edf30StagesWalk(annotations, lo, hi, st) ==
    IF lo > hi THEN st
    ELSE IF lo = hi THEN Edf30StagesStep(st, annotations[lo])
    ELSE LET mid == (lo + hi) \div 2
             left == Edf30StagesWalk(annotations, lo, mid, st)
         IN  IF left = left THEN Edf30StagesWalk(annotations, mid + 1, hi, left) ELSE left

edf30_calculate_sleep_stages(r) ==
    IF NoRecording(r) THEN None
    ELSE Some(Edf30StagesWalk(r[1].annotations, 1, Len(r[1].annotations),
                  [s \in Edf30StageNames |-> [count |-> 0, minutes |-> 0]]))

Returned(v) == [raised |-> FALSE, value |-> v]
Raised == [raised |-> TRUE, value |-> None]

edf30_calculate_sleep_architecture(stg) ==
    IF stg = None THEN Returned(None)
    ELSE LET st == stg[1]
             total_sleep_time == SumMinutes(st, SleepStageNames)
             nrem == st["N1"].minutes + st["N2"].minutes + st["N3"].minutes
         IN  IF total_sleep_time = 0 THEN Returned(None)
             \* 'rem_nrem_ratio': REM minutes / (N1 + N2 + N3 minutes): ZeroDivisionError
             ELSE IF nrem = 0 THEN Raised
             ELSE Returned(Some(
                    [ n1_percentage |-> Percent(st["N1"].minutes, total_sleep_time),
                      n2_percentage |-> Percent(st["N2"].minutes, total_sleep_time),
                      n3_percentage |-> Percent(st["N3"].minutes, total_sleep_time),
                      rem_percentage |-> Percent(st["REM"].minutes, total_sleep_time),
                      deep_sleep_ratio |-> Frac(st["N3"].minutes, total_sleep_time),
                      rem_nrem_ratio |-> Frac(st["REM"].minutes, nrem) ]))

----------------------------------------------------------------------------
(* The recordings the model runs on *)

MaxAnn == 2        \* longest free-form annotation stream
MaxRun == 2        \* longest run of one annotation kind in a composed night
MaxScanLen == 5    \* longest stage sequence of the REM-cycle scan
MaxOrder == 3      \* longest night of Wake, N2 and REM epochs in every order

Ann(desc, dur) == [desc |-> desc, dur |-> dur]

StageLabels == {StageW, Stage1, Stage2, Stage3, StageR, StageUnknown}
\* 28.0 s, 28.9 s, 29.0 s, 29.1 s, 30 s (tenths of a second)
StageDurations == {280, 289, 290, 291, 300}
EventLabels == {ObstructiveApnea, CentralApnea, MixedHypopnea, Desaturation, Snore,
                Activation, LegsMovement, PeriodicalLegs, REMEvent,
                TachyMarker, BradyMarker}

\* the labels that also come with the off-length durations: the duration test
\* of the code is the same expression for every label
OffLengthLabels == {StageW, Stage2, StageR}

AnnKinds == {Ann(l, 300) : l \in StageLabels}
            \cup {Ann(l, d) : l \in OffLengthLabels, d \in StageDurations}
            \cup {Ann(l, 0) : l \in EventLabels}

SeqsUpTo(S, n) == UNION {[1..k -> S] : k \in 0..n}

Rep(a, n) == [k \in 1..n |-> a]

\* every annotation stream of at most MaxAnn annotations
ShortStreams == SeqsUpTo(AnnKinds, MaxAnn)

\* nights composed of runs: Wake, N2 and REM epochs, then event markers
ComposedNights ==
    { Rep(Ann(StageW, 300), w) \o Rep(Ann(Stage2, 300), n) \o Rep(Ann(StageR, 300), r)
      \o Rep(Ann(ObstructiveApnea, 0), a) \o Rep(Ann(Activation, 0), c)
      \o Rep(Ann(TachyMarker, 0), t) :
      w \in 0..MaxRun, n \in 0..MaxRun, r \in 0..MaxRun,
      a \in 0..MaxRun, c \in 0..MaxRun, t \in 0..MaxRun }

\* 480 thirty-second N2 epochs and nothing else
AllN2Night == Rep(Ann(Stage2, 300), 480)

Recording(annotations) == [annotations |-> annotations, ch_names |-> <<>>]

\* a recording that holds no sample and no annotation: a Raw whose n_times is
\* 0, which `not raw` takes for no recording
EmptyRecording == [annotations |-> <<>>, ch_names |-> <<>>, n_times |-> 0]

\* nights of thirty-second Wake, N2 and REM epochs in every order
OrderedNights ==
    {a \in SeqsUpTo({Ann(StageW, 300), Ann(Stage2, 300), Ann(StageR, 300)}, MaxOrder) :
        Len(a) > MaxAnn}

\* eighty REM epochs with one or three REM events, and the same after two N2
\* epochs: the REM density is 1 / 40 or 3 / 40, a tie of round(x, 2)
LongRemNights ==
    { Rep(Ann(Stage2, 300), n) \o Rep(Ann(StageR, 300), 80) \o Rep(Ann(REMEvent, 0), e) :
      n \in {0, 2}, e \in {1, 3} }

\* Wake annotations of 29.9, 29.9, 29.9 and 30.3 s, then N2 and REM: two
\* minutes to sleep onset, which the additions of the doubles leave just short
DriftNight ==
    << Ann(StageW, 299), Ann(StageW, 299), Ann(StageW, 299), Ann(StageW, 303),
       Ann(Stage2, 300), Ann(StageR, 300) >>

\* an N2 epoch and three rhythm annotations: one holds the tachycardia marker
\* in a longer text, one holds both markers, one is the bradycardia marker
RhythmNight ==
    << Ann(Stage2, 300), Ann(TachyEpisode, 0), Ann(MixedRhythm, 0), Ann(BradyMarker, 0) >>

Recordings ==
    {Recording(a) : a \in ShortStreams \cup ComposedNights \cup OrderedNights
                          \cup LongRemNights \cup {AllN2Night, DriftNight, RhythmNight}}

\* an EDF file: whether mne can read it, the UUID in its header (None when the
\* pattern is absent), and the recording it decodes to
EdfFile(loadable, uid, rec) == [loadable |-> loadable, uuid |-> uid, raw |-> rec]
UnreadableFile == EdfFile(FALSE, None, Recording(<<>>))
\* the UUID token of the k-th study
Uuid(k) == [token |-> k]

\* files with a UUID, on every recording; files without one; a file without
\* data records; an unreadable file
EdfFiles == {EdfFile(TRUE, Some(Uuid(1)), rec) : rec \in Recordings}
            \cup {EdfFile(TRUE, None, Recording(a)) : a \in ComposedNights}
            \cup {EdfFile(TRUE, Some(Uuid(1)), EmptyRecording)}
            \cup {UnreadableFile}

\* the streams of the REM-cycle scan: thirty-second Wake, N1, N3 and REM epochs
\* in every order (N2, which the scan tests with N1 and N3 in one membership
\* test, comes with the two fixed streams), and a REM annotation of 28 s that
\* does not qualify as an epoch
ScanKinds == {Ann(l, 300) : l \in {StageW, Stage1, Stage3, StageR}}
             \cup {Ann(StageR, 280)}

\* [N2, R, N2, R, W, R, N2]
LiteralScanStream ==
    << Ann(Stage2, 300), Ann(StageR, 300), Ann(Stage2, 300), Ann(StageR, 300),
       Ann(StageW, 300), Ann(StageR, 300), Ann(Stage2, 300) >>

\* [N2, R, W, N2, R, R, N2]: a REM period cut by Wake, then a complete cycle
InterruptedScanStream ==
    << Ann(Stage2, 300), Ann(StageR, 300), Ann(StageW, 300), Ann(Stage2, 300),
       Ann(StageR, 300), Ann(StageR, 300), Ann(Stage2, 300) >>

\* [N1, R, R, N1, R, R]: a complete cycle, then a REM period that runs to the end
OpenEndedScanStream ==
    << Ann(Stage1, 300), Ann(StageR, 300), Ann(StageR, 300), Ann(Stage1, 300),
       Ann(StageR, 300), Ann(StageR, 300) >>

ScanStreams ==
    SeqsUpTo(ScanKinds, MaxScanLen)
    \cup {LiteralScanStream, InterruptedScanStream, OpenEndedScanStream}

----------------------------------------------------------------------------
(* Sequential run: SQLGenerator.process_file on one file with a fresh       *)
(* SleepAnalyzer                                                            *)

ScanIdle ==
    /\ sequence = <<>> /\ i = 0 /\ cycles = 0
    /\ in_rem = FALSE /\ rem_started = FALSE /\ scan_pc = "idle"

PoolIdle == wpc = <<>> /\ wlocal = <<>> /\ results = <<>>

EpisodesIdle ==
    /\ heart_rates = <<>> /\ hr_k = 0 /\ ep_cfg = None /\ ep = None /\ ep_pc = "idle"

MaskIdle == valid_mask = None /\ valid_mask30 = None

Analyzers == {"ecg", "spo2", "resp"}

Ref(owner, name) == <<owner, name>>

\* the objects a call creates: its result dictionary, the mask built for it,
\* the copy of the channel, the samples selected from it, the list of rates
ObjectNames == {"stats", "valid_mask", "data", "signal", "best_rates"}

\* no object created yet
NoArrays ==
    [ref \in {Ref(owner, name) : owner \in Analyzers \cup {"artifact_processor"},
                                 name \in ObjectNames} |-> None]

\* the locals of a call that has not begun
NoAnalyzerLocals ==
    [ stats |-> None, valid_mask |-> None, artifact_mask |-> None, artifact_regions |-> <<>>,
      cfg |-> None, channels |-> <<>>, ch |-> 0, data |-> None, signal |-> None,
      best_rates |-> None ]

\* the locals that hold a reference
RefLocals == {"stats", "valid_mask", "artifact_mask", "cfg", "data", "signal", "best_rates"}

SignalIdle ==
    /\ ecg_result = None /\ spo2_result = None /\ resp_result = None /\ spo2_result30 = None
    /\ config = CONFIG
    /\ an_pc = [a \in Analyzers |-> "idle"]
    /\ an_local = [a \in Analyzers |-> NoAnalyzerLocals]
    /\ arrays = NoArrays

FolderIdle == folder = None /\ folder_pc = "idle"

BeatIdle ==
    /\ valid_segments = None /\ seg_k = 0 /\ all_r_peaks = <<>>
    /\ hr_results = None /\ beat_pc = "idle"

AuxIdle == EpisodesIdle /\ MaskIdle /\ SignalIdle /\ FolderIdle /\ BeatIdle

Init ==
    /\ files \in {<<f>> : f \in EdfFiles}
    /\ path = 1
    /\ pc = "load"
    /\ raw = None /\ stages = None
    /\ uuid = None /\ result = None /\ arch30 = None
    /\ ScanIdle /\ PoolIdle /\ AuxIdle

\* SleepAnalyzer.load_edf: the recording read from the file, which line 382
\* has stored in self.raw; None on a read error, self.raw being left as it was
load_edf(f) == IF f.loadable THEN Some(f.raw) ELSE None

\* an extraction that falls back to a placeholder token when the header holds
\* none; the bundle property C8 must tell this from the code
extract_uuid_or_placeholder(f) == IF f.uuid = None THEN Some(Uuid(0)) ELSE f.uuid

\* SleepAnalyzer.extract_uuid
extract_uuid(f) == f.uuid

\* raw = self.sleep_analyzer.load_edf(edf_path); if not raw: return None.
\* A recording that was read is in self.raw by then, with or without samples.
LoadEdf ==
    /\ pc = "load"
    /\ LET loaded == load_edf(files[path])
       IN  /\ raw' = IF loaded # None THEN loaded ELSE raw
           /\ pc' = IF NoRecording(loaded) THEN "done" ELSE "uuid"
    /\ UNCHANGED <<files, path, stages, uuid, result, arch30, scanVars, auxVars, poolVars>>

\* uuid = self.sleep_analyzer.extract_uuid(edf_path); if not uuid: return None
ExtractUuid ==
    /\ pc = "uuid"
    /\ uuid' = extract_uuid(files[path])
    /\ pc' = IF uuid' = None THEN "done" ELSE "generate"
    /\ UNCHANGED <<files, path, raw, stages, result, arch30, scanVars, auxVars, poolVars>>

\* sql = self.sleep_analyzer.generate_sql(edf_path, uuid); return sql
GenerateSql ==
    /\ pc = "generate"
    /\ stages' = IF NoRecording(raw) THEN stages ELSE calculate_stages(raw)
    /\ result' = generate_sql(raw, path, uuid[1])
    /\ pc' = "done"
    /\ UNCHANGED <<files, path, raw, uuid, arch30, scanVars, auxVars, poolVars>>

\* the edf30 analyzer's calculate_sleep_stages and calculate_sleep_architecture
\* on the same loaded recording, once this pipeline has returned
Edf30Architecture ==
    /\ pc = "done" /\ raw # None /\ arch30 = None
    /\ arch30' = Some(edf30_calculate_sleep_architecture(edf30_calculate_sleep_stages(raw)))
    /\ UNCHANGED <<files, path, pc, raw, stages, uuid, result, scanVars, auxVars, poolVars>>

Next == LoadEdf \/ ExtractUuid \/ GenerateSql \/ Edf30Architecture

Spec == Init /\ [][Next]_vars

----------------------------------------------------------------------------
(* SleepAnalyzer.calculate_rem_cycles, one loop iteration per step *)

EngineIdle ==
    /\ path = 1 /\ pc = "idle" /\ stages = None
    /\ uuid = None /\ result = None /\ arch30 = None

InitScan ==
    /\ files = <<>>
    /\ raw \in {Some(Recording(a)) : a \in ScanStreams}
    /\ EngineIdle /\ PoolIdle /\ AuxIdle
    /\ sequence = <<>> /\ i = 0 /\ cycles = 0
    /\ in_rem = FALSE /\ rem_started = FALSE /\ scan_pc = "start"

\* build `sequence`; `if not sequence: return 0`; cycles = 0, flags False
ScanBegin ==
    /\ scan_pc = "start"
    /\ sequence' = CycleSequence(raw[1].annotations)
    /\ i' = 1 /\ cycles' = 0 /\ in_rem' = FALSE /\ rem_started' = FALSE
    /\ scan_pc' = IF sequence' = <<>> THEN "returned" ELSE "scan"
    /\ UNCHANGED <<files, engineVars, poolVars, auxVars>>

\* one iteration: the code's sequence[i - 1], sequence[i], sequence[i + 1]
\* are sequence[i], sequence[i + 1], sequence[i + 2] of the 1-based sequence
ScanStep ==
    /\ scan_pc = "scan"
    /\ i < Len(sequence) - 1
    /\ LET st == RemStep([cycles |-> cycles, in_rem |-> in_rem, rem_started |-> rem_started],
                         sequence[i], sequence[i + 1], sequence[i + 2])
       IN  /\ cycles' = st.cycles
           /\ in_rem' = st.in_rem
           /\ rem_started' = st.rem_started
    /\ i' = i + 1
    /\ UNCHANGED <<files, engineVars, poolVars, auxVars, sequence, scan_pc>>

\* the loop is exhausted: return cycles
ScanReturn ==
    /\ scan_pc = "scan"
    /\ i >= Len(sequence) - 1
    /\ scan_pc' = "returned"
    /\ UNCHANGED <<files, engineVars, poolVars, auxVars, sequence, i, cycles, in_rem, rem_started>>

NextScan == ScanBegin \/ ScanStep \/ ScanReturn

SpecScan == InitScan /\ [][NextScan]_vars


----------------------------------------------------------------------------
(* SQLGenerator.generate_sql_files: executor.map(self.process_file, edf_files)  *)
(* on a ThreadPoolExecutor.  Every task runs process_file on its own file, all  *)
(* on the one SleepAnalyzer of the generator (self.sleep_analyzer): `raw` and   *)
(* `stages` are that analyzer's fields, shared by the threads; the generator's  *)
(* Lock is never acquired.  A thread can be switched out between any two        *)
(* accesses to a field, so a step of a task is one access: the store of line    *)
(* 382, the read of line 383, the test of line 736, the test of line 401, the   *)
(* read of line 404, the store of line 423, and then every read of self.raw     *)
(* and of self.stages in the calls of lines 740-752, one at a time.  The tests  *)
(* `not self.raw` / `not self.stages` that open a method (lines 427, 442, 533,  *)
(* 572, 598, 640, 715) are reads of their own: the field can hold a recording   *)
(* with samples at the test and one without at the read that follows.  The      *)
(* second read of a test `not self.raw or not hasattr(self.raw, ...)` finds a   *)
(* recording whatever was stored since, and is left out.  What a task has read  *)
(* so far in the call it is in is its frame; what its calls have returned are   *)
(* its locals.                                                                 *)

NFiles == 2        \* files in the input directory (tasks of the pool)

Tasks == 1..NFiles

PoolRecordings ==
    { Recording(<<Ann(Stage2, 300)>>),
      Recording(<<Ann(StageW, 300), Ann(ObstructiveApnea, 0)>>),
      Recording(<<Ann(Stage2, 300), Ann(StageR, 300), Ann(Stage3, 300)>>) }

PoolFiles(k) ==
    {EdfFile(TRUE, Some(Uuid(k)), rec) : rec \in PoolRecordings \cup {EmptyRecording}}
    \cup {EdfFile(TRUE, None, CHOOSE rec \in PoolRecordings : Len(rec.annotations) = 1)}
    \cup {UnreadableFile}

\* generate_sql, lines 740-752: the calls that follow calculate_stages, in
\* order, each under the name of the local it is assigned to
GenerateSqlCalls ==
    << [local |-> "efficiency", method |-> "calculate_efficiency"],
       [local |-> "architecture", method |-> "calculate_architecture"],
       [local |-> "fragmentation", method |-> "calculate_fragmentation"],
       [local |-> "respiratory_events", method |-> "calculate_respiratory_events"],
       [local |-> "sleep_indices", method |-> "calculate_indices"],
       [local |-> "rem_quality", method |-> "calculate_rem_quality"],
       [local |-> "hr_stats", method |-> "analyze_ecg"],
       [local |-> "spo2_stats", method |-> "analyze_spo2"],
       [local |-> "resp_stats", method |-> "analyze_respiration"],
       [local |-> "latencies", method |-> "calculate_latencies"],
       [local |-> "sleep_quality", method |-> "calculate_sleep_quality"],
       [local |-> "hypnogram", method |-> "export_hypnogram"],
       [local |-> "rem_cycles", method |-> "calculate_rem_cycles"] >>

\* calculate_sleep_quality, lines 643-649: its seven calls, in order
QualityCalls ==
    << [local |-> "efficiency", method |-> "calculate_efficiency"],
       [local |-> "architecture", method |-> "calculate_architecture"],
       [local |-> "sleep_indices", method |-> "calculate_indices"],
       [local |-> "fragmentation", method |-> "calculate_fragmentation"],
       [local |-> "rem_quality", method |-> "calculate_rem_quality"],
       [local |-> "hr_stats", method |-> "analyze_ecg"],
       [local |-> "rem_cycles", method |-> "calculate_rem_cycles"] >>

\* the reads of the analyzer's fields a method makes, in the order it makes
\* them: "raw?" is the test `not self.raw`, "stages?" the test `not
\* self.stages`, "raw" a read of self.raw (the recording the method then works
\* on), a stage name is self.stages[name]['minutes'], "values" is the sum over
\* self.stages.values()
MethodReads(method) ==
    CASE method = "calculate_efficiency" ->            \* lines 427, 430, 431, 438
             <<"stages?", "N1", "N2", "N3", "REM", "values", "Wake">>
      [] method = "calculate_architecture" ->          \* lines 442, 445, 450-453
             <<"stages?", "N1", "N2", "N3", "REM", "N1", "N2", "N3", "REM">>
      [] method = "calculate_fragmentation" ->         \* lines 480, 490
             <<"raw", "N1", "N2", "N3", "REM">>
      [] method = "calculate_indices" ->               \* lines 533, 536 (505), 537
             <<"raw?", "stages?", "raw", "N1", "N2", "N3", "REM">>
      [] method = "calculate_sleep_quality" ->         \* line 640, before its calls
             <<"raw?", "stages?">>
      [] method \in {"calculate_rem_quality", "export_hypnogram", "calculate_rem_cycles"} ->
             <<"raw?", "raw">>                         \* lines 572, 575; 715, 718; 598, 601
      [] OTHER -> <<"raw">>                            \* lines 505, 746-748, 457

FieldTests == {"raw?", "stages?"}

\* what one read finds in the fields as they are now
ReadOf(key, self_raw, self_stages) ==
    IF key = "raw?" THEN ~NoRecording(self_raw)
    ELSE IF key = "stages?" THEN self_stages # None
    ELSE IF key = "raw" THEN self_raw
    ELSE IF key = "values" THEN SumMinutes(self_stages[1], DOMAIN self_stages[1])
    ELSE self_stages[1][key].minutes

\* self.stages[s]['minutes'] while self.stages is None: TypeError.  Only
\* calculate_fragmentation reads the table without testing it first.
ReadRaises(key, self_stages) == key \notin FieldTests \cup {"raw"} /\ self_stages = None

\* the last read was a test, and it made the method return
TestFailed(method, frame) ==
    MethodReads(method)[Len(frame)] \in FieldTests /\ ~frame[Len(frame)]

\* the method has made its last read: it has made them all, a test has made
\* it return, or calculate_architecture has found `total_sleep == 0` (line 446)
MethodDone(method, frame) ==
    \/ Len(frame) = Len(MethodReads(method))
    \/ TestFailed(method, frame)
    \/ method = "calculate_architecture" /\ Len(frame) = 5
           /\ frame[2] + frame[3] + frame[4] + frame[5] = 0

\* what the method returns from what it has read: after a failed test 0
\* (calculate_rem_cycles), {} or None (both None here)
MethodResult(method, frame) ==
    IF TestFailed(method, frame)
    THEN (IF method = "calculate_rem_cycles" THEN 0 ELSE None)
    ELSE
    CASE method = "calculate_efficiency" ->
             Some(EfficiencyOf(frame[2] + frame[3] + frame[4] + frame[5], frame[6], frame[7]))
      [] method = "calculate_architecture" ->
             IF Len(frame) = 5 THEN None
             ELSE Some(ArchitectureOf(frame[2] + frame[3] + frame[4] + frame[5],
                                      frame[6], frame[7], frame[8], frame[9]))
      [] method = "calculate_fragmentation" ->
             FragmentationOf(frame[1], frame[2] + frame[3] + frame[4] + frame[5])
      [] method = "calculate_indices" ->
             IndicesOf(calculate_respiratory_events(frame[3])[1],
                       frame[4] + frame[5] + frame[6] + frame[7])
      [] method = "calculate_respiratory_events" -> calculate_respiratory_events(frame[1])
      [] method = "calculate_rem_quality" -> RemQualityOf(frame[2][1].annotations)
      [] method = "analyze_ecg" -> analyze_ecg(frame[1])
      [] method = "analyze_spo2" -> analyze_spo2(frame[1])
      [] method = "analyze_respiration" -> analyze_respiration(frame[1])
      [] method = "calculate_latencies" -> calculate_latencies(frame[1])
      [] method = "export_hypnogram" -> HypnogramOf(frame[2][1].annotations)
      [] method = "calculate_rem_cycles" -> RemCyclesOf(frame[2][1].annotations)

\* the locals of process_file, generate_sql and calculate_sleep_quality of a
\* task that has not started: `at` is the call of GenerateSqlCalls it is in,
\* `sub` the call of QualityCalls within calculate_sleep_quality (0 outside
\* that method and at its opening test), `raised` whether a read raised
NoLocals ==
    [ raw |-> None, uuid |-> None, at |-> 0, sub |-> 0, frame |-> <<>>, raised |-> FALSE,
      locals |-> [ stages |-> None, efficiency |-> None, architecture |-> None,
                   fragmentation |-> None, respiratory_events |-> None,
                   sleep_indices |-> None, rem_quality |-> None, hr_stats |-> None,
                   spo2_stats |-> None, resp_stats |-> None, latencies |-> None,
                   sleep_quality |-> None, hypnogram |-> None, rem_cycles |-> None ],
      quality |-> [ efficiency |-> None, architecture |-> None, sleep_indices |-> None,
                    fragmentation |-> None, rem_quality |-> None, hr_stats |-> None,
                    rem_cycles |-> None ] ]

InQuality(loc) == GenerateSqlCalls[loc.at].method = "calculate_sleep_quality"

\* the call the task is in
CurrentCall(loc) ==
    IF InQuality(loc) /\ loc.sub > 0 THEN QualityCalls[loc.sub] ELSE GenerateSqlCalls[loc.at]

\* generate_sql moves on to its call number k
EnterCall(loc, k) == [loc EXCEPT !.at = k, !.frame = <<>>, !.sub = 0]

\* the current call returns v: the local it is assigned to is set and the
\* next call starts; the last call of calculate_sleep_quality makes that
\* method return what SleepQualityOf gives on its locals, which end with it
ReturnCall(loc, v) ==
    LET call == CurrentCall(loc)
    IN  IF ~InQuality(loc) \/ loc.sub = 0
        THEN EnterCall([loc EXCEPT !.locals[call.local] = v], loc.at + 1)
        ELSE LET q == [loc.quality EXCEPT ![call.local] = v]
             IN  IF loc.sub < Len(QualityCalls)
                 THEN [loc EXCEPT !.quality = q, !.sub = loc.sub + 1, !.frame = <<>>]
                 ELSE EnterCall([loc EXCEPT !.quality = NoLocals.quality,
                                            !.locals["sleep_quality"] = SleepQualityOf(q)],
                                loc.at + 1)

\* the task's next read of a field, the fields being as given: the read
\* raises, or it is not the method's last, or it is the second test of
\* calculate_sleep_quality and that method goes on to its first call, or the
\* method returns
ReadStep(loc, self_raw, self_stages) ==
    LET method == CurrentCall(loc).method
        key == MethodReads(method)[Len(loc.frame) + 1]
        frame == Append(loc.frame, ReadOf(key, self_raw, self_stages))
    IN  IF ReadRaises(key, self_stages) THEN [loc EXCEPT !.raised = TRUE]
        ELSE IF ~MethodDone(method, frame) THEN [loc EXCEPT !.frame = frame]
        ELSE IF method = "calculate_sleep_quality" /\ ~TestFailed(method, frame)
        THEN [loc EXCEPT !.sub = 1, !.frame = <<>>]
        ELSE ReturnCall(loc, MethodResult(method, frame))

\* a call of lines 740-752 all of whose reads find the fields as given
MethodOn(method, self_raw, self_stages) ==
    CASE method = "calculate_efficiency" -> calculate_efficiency(self_stages)
      [] method = "calculate_architecture" -> calculate_architecture(self_stages)
      [] method = "calculate_fragmentation" -> calculate_fragmentation(self_raw, self_stages)
      [] method = "calculate_respiratory_events" -> calculate_respiratory_events(self_raw)
      [] method = "calculate_indices" -> calculate_indices(self_raw, self_stages)
      [] method = "calculate_rem_quality" -> calculate_rem_quality(self_raw)
      [] method = "analyze_ecg" -> analyze_ecg(self_raw)
      [] method = "analyze_spo2" -> analyze_spo2(self_raw)
      [] method = "analyze_respiration" -> analyze_respiration(self_raw)
      [] method = "calculate_latencies" -> calculate_latencies(self_raw)
      [] method = "calculate_sleep_quality" -> calculate_sleep_quality(self_raw, self_stages)
      [] method = "export_hypnogram" -> export_hypnogram(self_raw)
      [] method = "calculate_rem_cycles" -> calculate_rem_cycles(self_raw)

\* the calls of generate_sql that are still to be made and assign to `name`
LaterCalls(loc, name) ==
    {k \in loc.at..Len(GenerateSqlCalls) : GenerateSqlCalls[k].local = name}

\* the task is about to make a call of generate_sql, the fields stay as given
\* and no call still to be made raises on them: every call from this one on
\* is a call on these fields
RestOfCalls(loc, self_raw, self_stages) ==
    [loc EXCEPT !.at = Len(GenerateSqlCalls) + 1,
                !.locals = [name \in DOMAIN loc.locals |->
                    IF LaterCalls(loc, name) = {} THEN loc.locals[name]
                    ELSE MethodOn(GenerateSqlCalls[CHOOSE k \in LaterCalls(loc, name) : TRUE].method,
                                  self_raw, self_stages)]]

\* the task's remaining reads of lines 740-752, the fields staying as given,
\* until generate_sql has made its last call or a read raises: one read after
\* another while the task is inside a call or a call ahead raises, and
\* otherwise the calls left
RECURSIVE RunCalls(_, _, _)
RunCalls(loc, self_raw, self_stages) ==
    IF loc.raised \/ loc.at > Len(GenerateSqlCalls) THEN loc
    ELSE IF /\ loc.frame = <<>> /\ loc.sub = 0
            /\ ~(self_stages = None /\ LaterCalls(loc, "fragmentation") # {})
    THEN RestOfCalls(loc, self_raw, self_stages)
    ELSE RunCalls(ReadStep(loc, self_raw, self_stages), self_raw, self_stages)

InitPool ==
    /\ files \in {f \in [Tasks -> UNION {PoolFiles(k) : k \in Tasks}] :
                      \A k \in Tasks : f[k] \in PoolFiles(k)}
    /\ raw = None /\ stages = None
    /\ path = 1 /\ pc = "idle" /\ uuid = None /\ result = None /\ arch30 = None
    /\ ScanIdle /\ AuxIdle
    /\ wpc = [t \in Tasks |-> "load"]
    /\ wlocal = [t \in Tasks |-> NoLocals]
    /\ results = [t \in Tasks |-> None]

\* load_edf, line 382: self.raw = mne.io.read_raw_edf(...); a read error is
\* caught, load_edf returns None and process_file returns None (line 874)
PoolLoad(t) ==
    /\ wpc[t] = "load"
    /\ LET loaded == load_edf(files[t])
       IN  /\ raw' = IF loaded # None THEN loaded ELSE raw
           /\ wpc' = [wpc EXCEPT ![t] = IF loaded # None THEN "loaded" ELSE "done"]
    /\ UNCHANGED <<files, path, pc, stages, uuid, result, arch30, scanVars, auxVars,
                   wlocal, results>>

\* load_edf, line 383: return self.raw, the field as it is now;
\* process_file: raw = ...; if not raw: return None
PoolLoadReturn(t) ==
    /\ wpc[t] = "loaded"
    /\ wlocal' = [wlocal EXCEPT ![t].raw = raw]
    /\ wpc' = [wpc EXCEPT ![t] = IF NoRecording(raw) THEN "done" ELSE "uuid"]
    /\ UNCHANGED <<files, engineVars, scanVars, auxVars, results>>

\* uuid = self.sleep_analyzer.extract_uuid(edf_path); if not uuid: return None
PoolUuid(t) ==
    /\ wpc[t] = "uuid"
    /\ LET u == extract_uuid(files[t])
       IN  /\ wlocal' = [wlocal EXCEPT ![t].uuid = u]
           /\ wpc' = [wpc EXCEPT ![t] = IF u = None THEN "done" ELSE "generate"]
    /\ UNCHANGED <<files, engineVars, scanVars, auxVars, results>>

\* generate_sql, line 736: if not self.raw: return None
PoolGenerateSql(t) ==
    /\ wpc[t] = "generate"
    /\ wpc' = [wpc EXCEPT ![t] = IF NoRecording(raw) THEN "done" ELSE "stages"]
    /\ UNCHANGED <<files, engineVars, scanVars, auxVars, wlocal, results>>

\* calculate_stages, lines 401-402: without a recording it returns None
\* (`stages = ... or {}`) and stores nothing
PoolStages(t) ==
    /\ wpc[t] = "stages"
    /\ IF NoRecording(raw)
       THEN /\ wlocal' = [wlocal EXCEPT ![t] = EnterCall(@, 1)]
            /\ wpc' = [wpc EXCEPT ![t] = "calls"]
       ELSE /\ wlocal' = wlocal
            /\ wpc' = [wpc EXCEPT ![t] = "annotations"]
    /\ UNCHANGED <<files, engineVars, scanVars, auxVars, results>>

\* calculate_stages, lines 404-421: annotations = self.raw.annotations, of the
\* recording the field holds now, and the loop that fills the local table
PoolAnnotations(t) ==
    /\ wpc[t] = "annotations"
    /\ wlocal' = [wlocal EXCEPT ![t].locals["stages"] = Some(StagesOf(raw[1].annotations))]
    /\ wpc' = [wpc EXCEPT ![t] = "store"]
    /\ UNCHANGED <<files, engineVars, scanVars, auxVars, results>>

\* calculate_stages, lines 423-424: self.stages = stages; return stages
PoolStagesStore(t) ==
    /\ wpc[t] = "store"
    /\ stages' = wlocal[t].locals["stages"]
    /\ wlocal' = [wlocal EXCEPT ![t] = EnterCall(@, 1)]
    /\ wpc' = [wpc EXCEPT ![t] = "calls"]
    /\ UNCHANGED <<files, path, pc, raw, uuid, result, arch30, scanVars, auxVars, results>>

\* a task that can still store into a field of the analyzer
StoresAhead(u) ==
    wpc[u] \in {"load", "loaded", "uuid", "generate", "stages", "annotations", "store"}

\* generate_sql, lines 740-752: the task's next read of self.raw or of
\* self.stages.  Once no other task can store into the fields any more, the
\* task's remaining reads find what this one finds whenever they are made:
\* they are then made in this one step.  A read that raises ends
\* process_file in its `except`, which returns None (lines 884-886).
PoolMetrics(t) ==
    /\ wpc[t] = "calls"
    /\ \E loc \in {IF \E u \in Tasks \ {t} : StoresAhead(u)
                   THEN ReadStep(wlocal[t], raw, stages)
                   ELSE RunCalls(wlocal[t], raw, stages)} :
           /\ wlocal' = [wlocal EXCEPT ![t] = loc]
           /\ wpc' = [wpc EXCEPT ![t] = IF loc.raised THEN "done"
                                        ELSE IF loc.at > Len(GenerateSqlCalls)
                                        THEN "return" ELSE "calls"]
    /\ UNCHANGED <<files, engineVars, scanVars, auxVars, results>>

\* generate_sql, lines 754-829: get_artifact_mask(self.raw), whose statistics
\* the record leaves out, sql_data from the locals, and create_sql_update with
\* the task's own uuid; process_file returns it
PoolReturn(t) ==
    /\ wpc[t] = "return"
    /\ results' = [results EXCEPT ![t] =
           Some(create_sql_update(SqlDataFrom(wlocal[t].locals), wlocal[t].uuid[1], t))]
    /\ wpc' = [wpc EXCEPT ![t] = "done"]
    /\ UNCHANGED <<files, engineVars, scanVars, auxVars, wlocal>>

NextPool ==
    \E t \in Tasks :
        \/ PoolLoad(t) \/ PoolLoadReturn(t) \/ PoolUuid(t) \/ PoolGenerateSql(t)
        \/ PoolStages(t) \/ PoolAnnotations(t) \/ PoolStagesStore(t)
        \/ PoolMetrics(t) \/ PoolReturn(t)

SpecPool == InitPool /\ [][NextPool]_vars

----------------------------------------------------------------------------
(* _detect_heart_rate_episodes (edf30 and edf20), one rate per step *)

\* edf30 CONFIG['ecg'] and the three locals of the edf20 function
Edf30EcgConfig ==
    [tachycardia_threshold |-> 100, bradycardia_threshold |-> 50, min_consecutive_events |-> 10]

Edf20EcgConfig ==
    [tachycardia_threshold |-> 100, bradycardia_threshold |-> 50, min_consecutive_events |-> 7]

\* episodes = {...: 0}; tachy_count = brady_count = 0; both flags False
EpisodeStart ==
    [tachycardia_events |-> 0, bradycardia_events |-> 0,
     tachy_count |-> 0, brady_count |-> 0,
     tachy_episode |-> FALSE, brady_episode |-> FALSE]

\* a variant whose threshold tests include the threshold itself
EpisodeStepInclusive(st, hr, cfg) ==
    LET tachy == hr >= cfg.tachycardia_threshold
        brady == hr <= cfg.bradycardia_threshold
        tc == IF tachy THEN st.tachy_count + 1 ELSE 0
        bc == IF brady THEN st.brady_count + 1 ELSE 0
        topen == tachy /\ tc >= cfg.min_consecutive_events /\ ~st.tachy_episode
        bopen == brady /\ bc >= cfg.min_consecutive_events /\ ~st.brady_episode
    IN  [tachycardia_events |-> st.tachycardia_events + (IF topen THEN 1 ELSE 0),
         bradycardia_events |-> st.bradycardia_events + (IF bopen THEN 1 ELSE 0),
         tachy_count |-> tc, brady_count |-> bc,
         tachy_episode |-> tachy /\ (st.tachy_episode \/ topen),
         brady_episode |-> brady /\ (st.brady_episode \/ bopen)]

\* a variant whose else branches reset the counter but leave the flag as it was
EpisodeStepFlagKept(st, hr, cfg) ==
    LET tachy == hr > cfg.tachycardia_threshold
        brady == hr < cfg.bradycardia_threshold
        tc == IF tachy THEN st.tachy_count + 1 ELSE 0
        bc == IF brady THEN st.brady_count + 1 ELSE 0
        topen == tachy /\ tc >= cfg.min_consecutive_events /\ ~st.tachy_episode
        bopen == brady /\ bc >= cfg.min_consecutive_events /\ ~st.brady_episode
    IN  [tachycardia_events |-> st.tachycardia_events + (IF topen THEN 1 ELSE 0),
         bradycardia_events |-> st.bradycardia_events + (IF bopen THEN 1 ELSE 0),
         tachy_count |-> tc, brady_count |-> bc,
         tachy_episode |-> st.tachy_episode \/ topen,
         brady_episode |-> st.brady_episode \/ bopen]

\* the loop body for one rate: the tachycardia block, then the bradycardia block
EpisodeStep(st, hr, cfg) ==
    LET tachy == hr > cfg.tachycardia_threshold
        brady == hr < cfg.bradycardia_threshold
        tc == IF tachy THEN st.tachy_count + 1 ELSE 0
        bc == IF brady THEN st.brady_count + 1 ELSE 0
        topen == tachy /\ tc >= cfg.min_consecutive_events /\ ~st.tachy_episode
        bopen == brady /\ bc >= cfg.min_consecutive_events /\ ~st.brady_episode
    IN  [tachycardia_events |-> st.tachycardia_events + (IF topen THEN 1 ELSE 0),
         bradycardia_events |-> st.bradycardia_events + (IF bopen THEN 1 ELSE 0),
         tachy_count |-> tc, brady_count |-> bc,
         tachy_episode |-> tachy /\ (st.tachy_episode \/ topen),
         brady_episode |-> brady /\ (st.brady_episode \/ bopen)]

\* the returned dictionary
EpisodesOf(st) ==
    [tachycardia_events |-> st.tachycardia_events, bradycardia_events |-> st.bradycardia_events]

\* heart-rate sequences: up to MaxRateRuns runs of one rate repeated
MaxRateRuns == 3

RateValues == {45, 50, 100, 110}

RateRunLengths(cfg) ==
    {1, cfg.min_consecutive_events - 1, cfg.min_consecutive_events}

RECURSIVE Concat(_)
Concat(ss) == IF ss = <<>> THEN <<>> ELSE Head(ss) \o Concat(Tail(ss))

RateRuns(cfg) == {Rep(v, n) : v \in RateValues, n \in RateRunLengths(cfg)}

RateSequences(cfg) == {Concat(rs) : rs \in SeqsUpTo(RateRuns(cfg), MaxRateRuns)}

InitEpisodes ==
    /\ files = <<>> /\ raw = None
    /\ EngineIdle /\ ScanIdle /\ PoolIdle /\ MaskIdle /\ SignalIdle /\ FolderIdle /\ BeatIdle
    /\ ep_cfg \in {Some(Edf30EcgConfig), Some(Edf20EcgConfig)}
    /\ heart_rates \in RateSequences(ep_cfg[1])
    /\ hr_k = 0 /\ ep = None /\ ep_pc = "start"

\* the statements before the loop
EpisodeBegin ==
    /\ ep_pc = "start"
    /\ ep' = Some(EpisodeStart)
    /\ ep_pc' = "scan"
    /\ UNCHANGED <<files, engineVars, scanVars, poolVars, maskVars, signalVars, folderVars, beatVars, heart_rates, hr_k, ep_cfg>>

\* for hr in heart_rates: one iteration
EpisodeScan ==
    /\ ep_pc = "scan"
    /\ hr_k < Len(heart_rates)
    /\ ep' = Some(EpisodeStep(ep[1], heart_rates[hr_k + 1], ep_cfg[1]))
    /\ hr_k' = hr_k + 1
    /\ UNCHANGED <<files, engineVars, scanVars, poolVars, maskVars, signalVars, folderVars, beatVars, heart_rates, ep_cfg, ep_pc>>

\* return episodes
EpisodeReturn ==
    /\ ep_pc = "scan"
    /\ hr_k = Len(heart_rates)
    /\ ep_pc' = "returned"
    /\ UNCHANGED <<files, engineVars, scanVars, poolVars, maskVars, signalVars, folderVars, beatVars, heart_rates, hr_k, ep_cfg, ep>>

NextEpisodes == EpisodeBegin \/ EpisodeScan \/ EpisodeReturn

SpecEpisodes == InitEpisodes /\ [][NextEpisodes]_vars

----------------------------------------------------------------------------
(* The artifact-mask builders of psg_edf and edf30 on one recording *)

\* an annotation with its onset, both times in tenths of a second
SigAnn(desc, onset, dur) == [desc |-> desc, onset |-> onset, dur |-> dur]

\* a recording with signals: data[k] holds the samples of channel ch_names[k]
SignalRecording(annotations, ch_names, data, n_times) ==
    [annotations |-> annotations, ch_names |-> ch_names, data |-> data,
     sfreq |-> 1, n_times |-> n_times]

\* a recording without channels sampled at sfreq Hz
SampledRecording(annotations, sfreq, n_times) ==
    [annotations |-> annotations, ch_names |-> <<>>, data |-> <<>>,
     sfreq |-> sfreq, n_times |-> n_times]

MaxSigAnn == 3

\* samples of the recordings the masks are built for (1 Hz: 12 s)
MaskSamples == 12

\* artifact blocks inside the recording, up to its end, across it and after it;
\* sensor events 1 s, 6 s, 6.5 s, 10 s, 11 s and 12.5 s apart; one other event
MaskAnnKinds ==
    {SigAnn(ArtifactMarker, onset, dur) : onset \in {0, 25, 100, 115, 130}, dur \in {5, 20, 100}}
    \cup {SigAnn(HeartbeatMarker, onset, 0) : onset \in {0, 10, 60, 110, 125}}
    \cup {SigAnn(TachyMarker, 30, 0)}

\* annotations are kept in onset order
OnsetOrdered(annotations) ==
    \A k \in 1..(Len(annotations) - 1) : annotations[k].onset <= annotations[k + 1].onset

\* 20 s at 1 Hz with sensor events at 6.4 s and 16.4 s, or at 6.5 s and
\* 16.5 s: ten seconds apart, which np.diff finds in the second pair only
TenSecondGapRecordings ==
    { SampledRecording(<<SigAnn(HeartbeatMarker, t, 0), SigAnn(HeartbeatMarker, t + 100, 0)>>, 1, 20) :
      t \in {64, 65} }

\* 4 s at 100 Hz with an artifact block from 2.3 s to 2.9 s
FastRecording == SampledRecording(<<SigAnn(ArtifactMarker, 23, 6)>>, 100, 400)

\* an artifact block from 2 s to 5 s whose description goes on after the marker
NotedRecording == SignalRecording(<<SigAnn(NotedArtifact, 20, 30)>>, <<>>, <<>>, MaskSamples)

MaskRecordings ==
    {SignalRecording(a, <<>>, <<>>, MaskSamples) :
        a \in {x \in SeqsUpTo(MaskAnnKinds, MaxSigAnn) : OnsetOrdered(x)}}
    \cup TenSecondGapRecordings \cup {FastRecording, NotedRecording}

InitMask ==
    /\ files = <<>>
    /\ raw \in {Some(r) : r \in MaskRecordings}
    /\ EngineIdle /\ ScanIdle /\ PoolIdle /\ EpisodesIdle /\ SignalIdle /\ FolderIdle /\ BeatIdle
    /\ valid_mask = None /\ valid_mask30 = None

\* psg_edf: artifact_mask, artifact_regions = get_artifact_mask(raw)
GetArtifactMask ==
    /\ raw # None /\ valid_mask = None
    /\ valid_mask' = Some(get_artifact_mask(raw))
    /\ UNCHANGED <<files, engineVars, scanVars, poolVars, episodeVars, signalVars, folderVars, beatVars, valid_mask30>>

\* edf30: artifact_mask, artifact_regions = self.get_artifact_masks()
Edf30GetArtifactMasks ==
    /\ raw # None /\ valid_mask30 = None
    /\ valid_mask30' = Some(edf30_get_artifact_masks(raw))
    /\ UNCHANGED <<files, engineVars, scanVars, poolVars, episodeVars, signalVars, folderVars, beatVars, valid_mask>>

NextMask == GetArtifactMask \/ Edf30GetArtifactMasks

SpecMask == InitMask /\ [][NextMask]_vars

----------------------------------------------------------------------------
(* The channel analyzers on one recording, in any order *)

MaxSignalRuns == 2

\* SpO2 samples: out of range (65), the lower bound of the range (75), the
\* 85 % threshold itself (85) and a normal value (95)
Spo2Values == {65, 75, 85, 95}

\* one sample, or a little more than a minute of samples
Spo2RunLengths == {1, 61}

\* six samples whose first percentile is 75.45, and thirty-six the first
\* percentile of which is 90.35
GradedSpo2Signals == { <<75, 84, 85, 89, 90, 100>>, <<90>> \o Rep(91, 35) }

Spo2Signals ==
    {Concat(rs) : rs \in {x \in SeqsUpTo({Rep(v, n) : v \in Spo2Values, n \in Spo2RunLengths},
                                          MaxSignalRuns) : x # <<>>}}
    \cup GradedSpo2Signals

\* the samples of a channel that is not the SpO2 channel
OtherSignal(n) == [k \in 1..n |-> k % 2]

ChannelLayouts == { <<"EEG">>, <<"EEG", "SpO2">>, <<"ECG", "SpO2", "Resp">>, <<"ECG", "Resp">> }

\* no annotation; an artifact block over the first 30 s; one from 10 s to past
\* the end; one over the whole recording; two sensor events 20 s apart and a
\* tachycardia marker
SignalAnnotations ==
    { <<>>,
      <<SigAnn(ArtifactMarker, 0, 300)>>,
      <<SigAnn(ArtifactMarker, 100, 10000)>>,
      <<SigAnn(ArtifactMarker, 0, 10000)>>,
      <<SigAnn(HeartbeatMarker, 0, 0), SigAnn(TachyMarker, 50, 0), SigAnn(HeartbeatMarker, 200, 0)>> }

SignalData(ch_names, spo2) ==
    [k \in DOMAIN ch_names |-> IF IsSpo2Channel(ch_names[k]) THEN spo2 ELSE OtherSignal(Len(spo2))]

SignalRecordings ==
    {SignalRecording(a, ch, SignalData(ch, s), Len(s)) :
        a \in SignalAnnotations,
        ch \in {c \in ChannelLayouts : \E k \in DOMAIN c : IsSpo2Channel(c[k])},
        s \in Spo2Signals}
    \cup
    {SignalRecording(a, ch, SignalData(ch, Rep(95, 61)), 61) :
        a \in SignalAnnotations,
        ch \in {c \in ChannelLayouts : \A k \in DOMAIN c : ~IsSpo2Channel(c[k])}}

\* generate_sql has called calculate_stages; the analyzers have not run yet
InitSignal ==
    /\ files = <<>>
    /\ raw \in {Some(r) : r \in SignalRecordings}
    /\ stages = calculate_stages(raw)
    /\ path = 1 /\ pc = "idle" /\ uuid = None /\ result = None /\ arch30 = None
    /\ ScanIdle /\ PoolIdle /\ EpisodesIdle /\ MaskIdle /\ SignalIdle /\ FolderIdle /\ BeatIdle

\* hr_stats = self.signal_analyzer.analyze_ecg(self.raw)
AnalyzeEcg ==
    /\ raw # None /\ ecg_result = None
    /\ ecg_result' = analyze_ecg(raw)
    /\ UNCHANGED <<files, engineVars, scanVars, poolVars, episodeVars, maskVars, folderVars,
                   beatVars, analyzerVars, spo2_result, resp_result, spo2_result30>>

\* spo2_stats = self.signal_analyzer.analyze_spo2(self.raw)
AnalyzeSpo2 ==
    /\ raw # None /\ spo2_result = None
    /\ spo2_result' = analyze_spo2(raw)
    /\ UNCHANGED <<files, engineVars, scanVars, poolVars, episodeVars, maskVars, folderVars,
                   beatVars, analyzerVars, ecg_result, resp_result, spo2_result30>>

\* resp_stats = self.signal_analyzer.analyze_respiration(self.raw)
AnalyzeRespiration ==
    /\ raw # None /\ resp_result = None
    /\ resp_result' = analyze_respiration(raw)
    /\ UNCHANGED <<files, engineVars, scanVars, poolVars, episodeVars, maskVars, folderVars,
                   beatVars, analyzerVars, ecg_result, spo2_result, spo2_result30>>

\* edf30: spo2_stats = self.analyze_spo2_channel_fast()
Edf30AnalyzeSpo2 ==
    /\ raw # None /\ spo2_result30 = None
    /\ spo2_result30' = Some(edf30_analyze_spo2_channel_fast(raw))
    /\ UNCHANGED <<files, engineVars, scanVars, poolVars, episodeVars, maskVars, folderVars,
                   beatVars, analyzerVars, ecg_result, spo2_result, resp_result>>

NextSignal == AnalyzeEcg \/ AnalyzeSpo2 \/ AnalyzeRespiration \/ Edf30AnalyzeSpo2

SpecSignal == InitSignal /\ [][NextSignal]_vars

----------------------------------------------------------------------------
(* The three channel analyzers of psg_edf as the threads of the pool run   *)
(* them: statement by statement and interleaved, on one SignalAnalyzer     *)
(* (self.config, self.artifact_processor) and one recording.  A local      *)
(* that holds an array, a list or a dictionary holds a reference to it:    *)
(* <<"raw", k>> is row k of the recording's data, <<"config", key>> an     *)
(* entry of self.config, and <<a, name>> an object that the call of        *)
(* analyzer a has created.  An assignment into an object is made in the    *)
(* object the reference names.                                             *)

\* what a reference names, in a recording, a configuration and the objects
\* created so far
ObjectAt(ref, r, cnf, objects) ==
    IF ref[1] = "raw" THEN r[1].data[ref[2]]
    ELSE IF ref[1] = "config" THEN cnf[ref[2]]
    ELSE objects[ref][1]

Deref(ref) == ObjectAt(ref, raw, config, arrays)

\* obj = np.ones(...), {...}, [], raw[idx, :], signal[mask]: a new object
Created(ref, value) ==
    /\ arrays' = [arrays EXCEPT ![ref] = Some(value)]
    /\ UNCHANGED <<raw, config>>

\* obj[start:end] = ..., obj &= ..., obj[key] += 1, obj.update(...),
\* obj.extend(...): the object the reference names is changed, wherever it is
Written(ref, value) ==
    IF ref[1] = "raw"
    THEN /\ raw' = Some([raw[1] EXCEPT !.data[ref[2]] = value])
         /\ UNCHANGED <<config, arrays>>
    ELSE IF ref[1] = "config"
    THEN /\ config' = [config EXCEPT ![ref[2]] = value]
         /\ UNCHANGED <<raw, arrays>>
    ELSE /\ arrays' = [arrays EXCEPT ![ref] = Some(value)]
         /\ UNCHANGED <<raw, config>>

\* what analyze_ecg, analyze_spo2, analyze_respiration returned
AnalyzerResult(a) ==
    IF a = "ecg" THEN ecg_result ELSE IF a = "spo2" THEN spo2_result ELSE resp_result

\* return stats
AnalyzerReturns(a, value) ==
    /\ ecg_result' = IF a = "ecg" THEN Some(value) ELSE ecg_result
    /\ spo2_result' = IF a = "spo2" THEN Some(value) ELSE spo2_result
    /\ resp_result' = IF a = "resp" THEN Some(value) ELSE resp_result

\* analyzer a goes on to position next_pc with the locals loc; what the
\* SignalAnalyzer has no reference to stays
AnalyzerGoes(a, next_pc, loc) ==
    /\ an_pc' = [an_pc EXCEPT ![a] = next_pc]
    /\ an_local' = [an_local EXCEPT ![a] = loc]
    /\ UNCHANGED <<files, pc, path, stages, uuid, result, arch30, scanVars, poolVars,
                   episodeVars, maskVars, folderVars, beatVars, spo2_result30>>

\* a recording sampled at 2 Hz: data[k] holds the samples of channel ch_names[k]
BreathingRecording(annotations, ch_names, data) ==
    [annotations |-> annotations, ch_names |-> ch_names, data |-> data,
     sfreq |-> 2, n_times |-> Len(data[1])]

\* the samples s, n times over
Repeated(s, n) == Concat(Rep(s, n))

\* breathing at 2 Hz: a breath every 4 s for 24 s; one every 3 s for 24 s; a
\* breath every 2 s, then every 4 s, then every 3 s; breaths 4 s, 6 s and 8 s
\* apart, whose tenth percentile is 8.25 a minute; no breath at all
BreathingSignals ==
    { Repeated(<<0, 1, 2, 3, 4, 3, 2, 1>>, 6),
      Repeated(<<0, 1, 2, 3, 2, 1>>, 8),
      Repeated(<<0, 1, 2, 1>>, 3) \o Repeated(<<0, 1, 2, 3, 4, 3, 2, 1>>, 3)
          \o Repeated(<<0, 1, 2, 3, 2, 1>>, 3),
      Repeated(<<0, 1, 2, 3, 4, 3, 2, 1>>, 3)
          \o Repeated(<<0, 0, 1, 2, 2, 2, 3, 4, 4, 4, 3, 2, 2, 2, 1, 0>>, 2) \o <<0, 1, 2>>,
      Rep(2, 48) }

\* SpO2 samples in and out of the valid range, above and below the thresholds
Spo2Wave(n) == [k \in 1..n |-> <<95, 96, 89, 84, 70, 97>>[(k % 6) + 1]]

BreathingData(ch_names, resp) ==
    [k \in DOMAIN ch_names |->
        IF ch_names[k] = "Resp" THEN resp
        ELSE IF IsSpo2Channel(ch_names[k]) THEN Spo2Wave(Len(resp))
        ELSE OtherSignal(Len(resp))]

\* no annotation; an artifact block from 2 s to 6 s and a tachycardia
\* marker; a block over the whole recording; two sensor events 12 s apart and
\* a tachycardia marker
BreathingAnnotations ==
    { <<>>,
      <<SigAnn(ArtifactMarker, 20, 40), SigAnn(TachyMarker, 50, 0)>>,
      <<SigAnn(ArtifactMarker, 0, 10000)>>,
      <<SigAnn(HeartbeatMarker, 10, 0), SigAnn(TachyMarker, 50, 0), SigAnn(HeartbeatMarker, 130, 0)>> }

BreathingRecordings ==
    {BreathingRecording(a, ch, BreathingData(ch, s)) :
        a \in BreathingAnnotations,
        ch \in { <<"ECG", "SpO2", "Resp">>, <<"Resp", "Flow">> },
        s \in BreathingSignals}

\* the recordings the analyzers run on statement by statement: those at
\* 2 Hz, at 1 Hz those with the graded SpO2 signals, and the one of no sample
AnalyzerRecordings ==
    BreathingRecordings \cup {EmptyRecording}
    \cup {SignalRecording(a, ch, SignalData(ch, s), Len(s)) :
            a \in SignalAnnotations, ch \in ChannelLayouts, s \in GradedSpo2Signals}

\* generate_sql has called calculate_stages; no analyzer has begun
InitAnalyzers ==
    /\ files = <<>>
    /\ raw \in {Some(r) : r \in AnalyzerRecordings}
    /\ stages = calculate_stages(raw)
    /\ path = 1 /\ pc = "idle" /\ uuid = None /\ result = None /\ arch30 = None
    /\ ScanIdle /\ PoolIdle /\ EpisodesIdle /\ MaskIdle /\ SignalIdle /\ FolderIdle /\ BeatIdle

\* a get_artifact_mask that would fill one buffer kept by the processor
MaskRefShared(a) == Ref("artifact_processor", "valid_mask")

\* valid_mask = np.ones(total_samples, dtype=bool): a new array for the call
MaskRef(a) == Ref(a, "valid_mask")

\* get_artifact_mask, lines 25-31: (None, []) without a recording, or the new
\* mask of ones and the empty list of regions
MaskOnes ==
    \E a \in Analyzers :
        /\ an_pc[a] = "mask"
        /\ IF NoRecording(raw)
           THEN /\ AnalyzerGoes(a, "data", [an_local[a] EXCEPT !.artifact_mask = None,
                                                               !.artifact_regions = <<>>])
                /\ UNCHANGED <<raw, config, arrays>>
           ELSE /\ AnalyzerGoes(a, "artifacts", [an_local[a] EXCEPT !.valid_mask = Some(MaskRef(a)),
                                                                    !.artifact_regions = <<>>])
                /\ Created(MaskRef(a), [k \in 1..raw[1].n_times |-> TRUE])
        /\ UNCHANGED <<ecg_result, spo2_result, resp_result>>

\* get_artifact_mask, lines 33-39: the loop over the annotations, with its
\* valid_mask[start:end] = False and artifact_regions.append(...)
MaskArtifacts ==
    \E a \in Analyzers :
        /\ an_pc[a] = "artifacts"
        /\ \E acc \in {ArtifactWalk(raw[1].annotations, 1,
                                    [mask |-> Deref(an_local[a].valid_mask[1]),
                                     regions |-> an_local[a].artifact_regions],
                                    raw[1].sfreq, raw[1].n_times)} :
               /\ Written(an_local[a].valid_mask[1], acc.mask)
               /\ AnalyzerGoes(a, "gaps", [an_local[a] EXCEPT !.artifact_regions = acc.regions])
        /\ UNCHANGED <<ecg_result, spo2_result, resp_result>>

\* get_artifact_mask, lines 41-46: the heartbeat gaps (valid_mask &= ~gap_mask,
\* artifact_regions.extend(gap_regions)) and the return to the analyzer, whose
\* artifact_mask is the mask built
MaskGaps ==
    \E a \in Analyzers :
        /\ an_pc[a] = "gaps"
        /\ \E out \in {MaskWithoutGaps([mask |-> Deref(an_local[a].valid_mask[1]),
                                        regions |-> an_local[a].artifact_regions],
                                       get_heartbeat_gaps(raw), raw[1].n_times)} :
               /\ Written(an_local[a].valid_mask[1], out.mask[1])
               /\ AnalyzerGoes(a, "data", [an_local[a] EXCEPT
                                               !.artifact_mask = an_local[a].valid_mask,
                                               !.artifact_regions = out.regions])
        /\ UNCHANGED <<ecg_result, spo2_result, resp_result>>

\* the mask an analyzer's artifact_mask names, None for None
MaskHeld(a) ==
    IF an_local[a].artifact_mask = None THEN None
    ELSE Some(Deref(an_local[a].artifact_mask[1]))

\* data, _ = raw[idx, :] -- the samples of the channel in a new array
ChannelCopied(a, name) ==
    Created(Ref(a, "data"), Deref(Ref("raw", ChannelIndex(raw[1].ch_names, name))))

\* analyze_ecg, line 89: results = {...}
EcgStart ==
    /\ raw # None /\ an_pc["ecg"] = "idle"
    /\ Created(Ref("ecg", "stats"), EcgResults)
    /\ AnalyzerGoes("ecg", "markers", [NoAnalyzerLocals EXCEPT !.stats = Some(Ref("ecg", "stats"))])
    /\ UNCHANGED <<ecg_result, spo2_result, resp_result>>

\* analyze_ecg, lines 92-104: the markers counted in results, and results
\* returned when no channel is an ECG channel
EcgMarkers ==
    /\ an_pc["ecg"] = "markers"
    /\ \E res \in {EcgMarkersCounted(Deref(an_local["ecg"].stats[1]), raw)} :
           /\ Written(an_local["ecg"].stats[1], res)
           /\ IF SelectSeq(raw[1].ch_names, IsEcgChannel) = <<>>
              THEN /\ AnalyzerGoes("ecg", "returned", an_local["ecg"])
                   /\ AnalyzerReturns("ecg", res)
              ELSE /\ AnalyzerGoes("ecg", "mask",
                                   [an_local["ecg"] EXCEPT
                                        !.channels = SelectSeq(raw[1].ch_names, IsEcgChannel)])
                   /\ UNCHANGED <<ecg_result, spo2_result, resp_result>>

\* analyze_ecg, lines 107-112: data, _ = raw[ecg_idx, :]
EcgData ==
    /\ an_pc["ecg"] = "data"
    /\ ChannelCopied("ecg", an_local["ecg"].channels[1])
    /\ AnalyzerGoes("ecg", "select", [an_local["ecg"] EXCEPT !.data = Some(Ref("ecg", "data"))])
    /\ UNCHANGED <<ecg_result, spo2_result, resp_result>>

\* analyze_ecg, lines 114-119: ecg_signal = data[0] names the samples of
\* data; under a mask it becomes the new array ecg_signal[artifact_mask[...]],
\* and results is returned when that is empty
EcgSelect ==
    /\ an_pc["ecg"] = "select"
    /\ IF an_local["ecg"].artifact_mask = None
       THEN /\ AnalyzerGoes("ecg", "rates", [an_local["ecg"] EXCEPT !.signal = an_local["ecg"].data])
            /\ UNCHANGED <<raw, config, arrays, ecg_result, spo2_result, resp_result>>
       ELSE \E selected \in {EcgSelected(Deref(an_local["ecg"].data[1]), MaskHeld("ecg"))} :
               /\ Created(Ref("ecg", "signal"), selected)
               /\ IF selected = <<>>
                  THEN /\ AnalyzerGoes("ecg", "returned", an_local["ecg"])
                       /\ AnalyzerReturns("ecg", Deref(an_local["ecg"].stats[1]))
                  ELSE /\ AnalyzerGoes("ecg", "rates",
                                       [an_local["ecg"] EXCEPT !.signal = Some(Ref("ecg", "signal"))])
                       /\ UNCHANGED <<ecg_result, spo2_result, resp_result>>

\* analyze_ecg, lines 121-142: the peaks, results.update(...) and return
EcgRatesStep ==
    /\ an_pc["ecg"] = "rates"
    /\ \E res \in {EcgRatesFrom(Deref(an_local["ecg"].stats[1]),
                                SignalDetectRPeaks(Deref(an_local["ecg"].signal[1]),
                                                   raw[1].sfreq))} :
           /\ Written(an_local["ecg"].stats[1], res)
           /\ AnalyzerReturns("ecg", res)
    /\ AnalyzerGoes("ecg", "returned", an_local["ecg"])

\* analyze_spo2, lines 172-173: stats = {...}
Spo2Start ==
    /\ raw # None /\ an_pc["spo2"] = "idle"
    /\ Created(Ref("spo2", "stats"), Spo2Degraded)
    /\ AnalyzerGoes("spo2", "mask", [NoAnalyzerLocals EXCEPT !.stats = Some(Ref("spo2", "stats"))])
    /\ UNCHANGED <<ecg_result, spo2_result, resp_result>>

\* analyze_spo2, lines 177-183: cfg = self.config['spo2'] names the entry of
\* the configuration; stats is returned without an SpO2 channel; otherwise
\* data, _ = raw[spo2_idx, :]
Spo2Data ==
    /\ an_pc["spo2"] = "data"
    /\ IF SelectSeq(raw[1].ch_names, IsSpo2Channel) = <<>>
       THEN /\ AnalyzerGoes("spo2", "returned",
                            [an_local["spo2"] EXCEPT !.cfg = Some(Ref("config", "spo2"))])
            /\ AnalyzerReturns("spo2", Deref(an_local["spo2"].stats[1]))
            /\ UNCHANGED <<raw, config, arrays>>
       ELSE /\ ChannelCopied("spo2", SelectSeq(raw[1].ch_names, IsSpo2Channel)[1])
            /\ AnalyzerGoes("spo2", "rates",
                            [an_local["spo2"] EXCEPT
                                 !.cfg = Some(Ref("config", "spo2")),
                                 !.channels = SelectSeq(raw[1].ch_names, IsSpo2Channel),
                                 !.data = Some(Ref("spo2", "data")),
                                 !.signal = Some(Ref("spo2", "data"))])
            /\ UNCHANGED <<ecg_result, spo2_result, resp_result>>

\* analyze_spo2, lines 184-217: the statistics written into stats, and return
Spo2Stats ==
    /\ an_pc["spo2"] = "rates"
    /\ \E st \in {Spo2ChannelStats(Deref(an_local["spo2"].signal[1]), MaskHeld("spo2"),
                                   raw[1].n_times, raw[1].sfreq, Deref(an_local["spo2"].cfg[1]),
                                   Deref(an_local["spo2"].cfg[1]).threshold_90,
                                   Deref(an_local["spo2"].cfg[1]).threshold_85)} :
           /\ Written(an_local["spo2"].stats[1], st)
           /\ AnalyzerReturns("spo2", st)
    /\ AnalyzerGoes("spo2", "returned", an_local["spo2"])

\* analyze_respiration, line 322: stats = {...}
RespStart ==
    /\ raw # None /\ an_pc["resp"] = "idle"
    /\ Created(Ref("resp", "stats"), RespStats)
    /\ AnalyzerGoes("resp", "channels", [NoAnalyzerLocals EXCEPT !.stats = Some(Ref("resp", "stats"))])
    /\ UNCHANGED <<ecg_result, spo2_result, resp_result>>

\* analyze_respiration, lines 325-331: stats is returned without a
\* respiration channel; otherwise best_rates = [] and the first channel
RespFirstChannel ==
    /\ an_pc["resp"] = "channels"
    /\ IF RespChannels(raw[1].ch_names) = <<>>
       THEN /\ AnalyzerGoes("resp", "returned", an_local["resp"])
            /\ AnalyzerReturns("resp", Deref(an_local["resp"].stats[1]))
            /\ UNCHANGED <<raw, config, arrays>>
       ELSE /\ Created(Ref("resp", "best_rates"), <<>>)
            /\ AnalyzerGoes("resp", "mask",
                            [an_local["resp"] EXCEPT !.channels = RespChannels(raw[1].ch_names),
                                                     !.ch = 1,
                                                     !.best_rates = Some(Ref("resp", "best_rates"))])
            /\ UNCHANGED <<ecg_result, spo2_result, resp_result>>

\* the loop `for ch in resp_channels[:3]` goes on to the next channel, or
\* ends
AfterChannel(loc) ==
    IF loc.ch < Len(loc.channels) THEN "mask" ELSE "final"

\* analyze_resp_channel, lines 272-277: data, _ = raw[ch_idx, :]
RespData ==
    /\ an_pc["resp"] = "data"
    /\ ChannelCopied("resp", an_local["resp"].channels[an_local["resp"].ch])
    /\ AnalyzerGoes("resp", "select", [an_local["resp"] EXCEPT !.data = Some(Ref("resp", "data"))])
    /\ UNCHANGED <<ecg_result, spo2_result, resp_result>>

\* analyze_resp_channel, lines 279-284: resp_signal = data[0] names the
\* samples of data; under a mask of its length it becomes the new array
\* resp_signal[artifact_mask], and the channel gives no rate when that is empty
RespSelect ==
    /\ an_pc["resp"] = "select"
    /\ IF ~(/\ an_local["resp"].artifact_mask # None
             /\ Len(MaskHeld("resp")[1]) = Len(Deref(an_local["resp"].data[1])))
       THEN /\ AnalyzerGoes("resp", "rates", [an_local["resp"] EXCEPT !.signal = an_local["resp"].data])
            /\ UNCHANGED <<raw, config, arrays>>
       ELSE \E selected \in {RespSelected(Deref(an_local["resp"].data[1]), MaskHeld("resp"))} :
               /\ Created(Ref("resp", "signal"), selected)
               /\ IF selected = <<>>
                  THEN AnalyzerGoes("resp", AfterChannel(an_local["resp"]),
                                    [an_local["resp"] EXCEPT !.ch = @ + 1,
                                                             !.signal = Some(Ref("resp", "signal"))])
                  ELSE AnalyzerGoes("resp", "rates",
                                    [an_local["resp"] EXCEPT !.signal = Some(Ref("resp", "signal"))])
    /\ UNCHANGED <<ecg_result, spo2_result, resp_result>>

\* analyze_resp_channel, lines 286-287 (preprocess_resp reads
\* self.config['respiration'], analyze_breathing gives the rates), and
\* analyze_respiration, lines 332-335: best_rates.extend(rates)
RespRatesStep ==
    /\ an_pc["resp"] = "rates"
    /\ \E rates \in {RespChannelRates(Deref(an_local["resp"].signal[1]), raw[1].sfreq,
                                      Deref(Ref("config", "respiration")))} :
           Written(an_local["resp"].best_rates[1], Deref(an_local["resp"].best_rates[1]) \o rates)
    /\ AnalyzerGoes("resp", AfterChannel(an_local["resp"]), [an_local["resp"] EXCEPT !.ch = @ + 1])
    /\ UNCHANGED <<ecg_result, spo2_result, resp_result>>

\* analyze_respiration, lines 337-370: cfg = self.config['respiration'], the
\* statistics of the rates written into stats, and return
RespFinal ==
    /\ an_pc["resp"] = "final"
    /\ \E st \in {RespirationStats(Deref(an_local["resp"].best_rates[1]), raw[1].sfreq,
                                   Deref(Ref("config", "respiration")))} :
           /\ Written(an_local["resp"].stats[1], st)
           /\ AnalyzerReturns("resp", st)
    /\ AnalyzerGoes("resp", "returned", [an_local["resp"] EXCEPT !.cfg = Some(Ref("config", "respiration"))])

NextAnalyzers ==
    \/ MaskOnes \/ MaskArtifacts \/ MaskGaps
    \/ EcgStart \/ EcgMarkers \/ EcgData \/ EcgSelect \/ EcgRatesStep
    \/ Spo2Start \/ Spo2Data \/ Spo2Stats
    \/ RespStart \/ RespFirstChannel \/ RespData \/ RespSelect \/ RespRatesStep \/ RespFinal

SpecAnalyzers == InitAnalyzers /\ [][NextAnalyzers]_vars

----------------------------------------------------------------------------
(* Batch processing of one directory: psg_edf generate_sql_files (the      *)
(* thread pool above) and edf30 process_edf_folder (a sequential loop on   *)
(* the edf30 analyzer), on the same files                                  *)

\* edf30 SleepAnalyzer.generate_sql_insert_statements: None without a
\* recording; calculate_sleep_architecture may raise, and nothing inside
\* catches it; otherwise the file sleep_stats_<uuid>.sql is written and its
\* name returned.  The file is the record of its name (sleep_stats) and of
\* the statement's values that come from the stage table self.stages, which
\* the first call, calculate_sleep_stages, has just replaced, and from the
\* latencies.
edf30_generate_sql_insert_statements(r, patient_info) ==
    IF NoRecording(r) THEN Returned(None)
    ELSE LET stg == edf30_calculate_sleep_stages(r)
             architecture == edf30_calculate_sleep_architecture(stg)
         IN  IF architecture.raised THEN Raised
             ELSE Returned(Some([sleep_stats |-> patient_info.uuid,
                                 stages |-> stg,
                                 architecture |-> architecture.value,
                                 latencies |-> edf30_calculate_sleep_latencies(r)]))

\* edf30 SleepAnalyzer.load_edf_file: self.raw is assigned whenever the file
\* could be read; None on a read error
load_edf_file(f) == IF f.loadable THEN Some(f.raw) ELSE None

\* edf30 SleepAnalyzer.extract_patient_info_from_edf
extract_patient_info_from_edf(f) == [uuid |-> f.uuid]

\* SleepAnalyzer() and the statements of process_edf_folder before the loop:
\* no recording, no stage table, both lists empty, no file in the output
\* folder
FolderStart ==
    [k |-> 0, raw |-> None, stages |-> None, processed_files |-> <<>>, failed_files |-> <<>>,
     sql_output |-> {}, escaped |-> FALSE]

\* os.rename(sql_filename, new_sql_path): the file is in the output folder
\* under its name, sleep_stats_<uuid>.sql, in the place of any file that had
\* that name
Renamed(sql_output, sql_file) ==
    {o \in sql_output : o.sleep_stats # sql_file.sleep_stats} \cup {sql_file}

\* one iteration without the `continue` after a failed load: generation goes
\* on with whatever self.raw holds
FolderIterationNoContinue(st, f, edf_path) ==
    LET loaded == load_edf_file(f)
        self_raw == IF loaded # None THEN loaded ELSE st.raw
        self_stages == IF NoRecording(self_raw) THEN st.stages
                       ELSE edf30_calculate_sleep_stages(self_raw)
        out == edf30_generate_sql_insert_statements(self_raw, extract_patient_info_from_edf(f))
    IN  IF ~out.raised /\ out.value # None
        THEN [st EXCEPT !.k = edf_path, !.raw = self_raw, !.stages = self_stages,
                        !.sql_output = Renamed(@, out.value[1]),
                        !.processed_files = Append(@, out.value[1])]
        ELSE [st EXCEPT !.k = edf_path, !.raw = self_raw, !.stages = self_stages,
                        !.failed_files = Append(@, edf_path)]

\* one iteration of `for i, edf_path in enumerate(edf_files, 1)`: load (`if
\* not raw`: failed, continue), patient info, generate; a file name is moved
\* to the output folder and appended to processed_files; None or an exception
\* appends the path to failed_files
FolderIteration(st, f, edf_path) ==
    LET loaded == load_edf_file(f)
        self_raw == IF loaded # None THEN loaded ELSE st.raw
        self_stages == IF NoRecording(self_raw) THEN st.stages
                       ELSE edf30_calculate_sleep_stages(self_raw)
        out == edf30_generate_sql_insert_statements(self_raw, extract_patient_info_from_edf(f))
    IN  IF NoRecording(loaded)
        THEN [st EXCEPT !.k = edf_path, !.raw = self_raw,
                        !.failed_files = Append(@, edf_path)]
        ELSE IF ~out.raised /\ out.value # None
        THEN [st EXCEPT !.k = edf_path, !.raw = self_raw, !.stages = self_stages,
                        !.sql_output = Renamed(@, out.value[1]),
                        !.processed_files = Append(@, out.value[1])]
        ELSE [st EXCEPT !.k = edf_path, !.raw = self_raw, !.stages = self_stages,
                        !.failed_files = Append(@, edf_path)]

\* a recording with N2 only, one with REM only (edf30's
\* calculate_sleep_architecture raises on it) and one of no samples
BatchRecordings ==
    { Recording(<<Ann(Stage2, 300)>>), Recording(<<Ann(StageR, 300)>>), EmptyRecording }

\* the files a directory may hold in place k: readable with a UUID, readable
\* without one, unreadable
BatchFiles(k) ==
    {EdfFile(TRUE, Some(Uuid(k)), rec) : rec \in BatchRecordings}
    \cup {EdfFile(TRUE, None, Recording(<<Ann(Stage2, 300)>>)), UnreadableFile}

InitBatch ==
    /\ files \in {f \in [Tasks -> UNION {BatchFiles(k) : k \in Tasks}] :
                      \A k \in Tasks : f[k] \in BatchFiles(k)}
    /\ raw = None /\ stages = None
    /\ path = 1 /\ pc = "idle" /\ uuid = None /\ result = None /\ arch30 = None
    /\ ScanIdle /\ EpisodesIdle /\ MaskIdle /\ SignalIdle /\ BeatIdle
    /\ wpc = [t \in Tasks |-> "load"]
    /\ wlocal = [t \in Tasks |-> NoLocals]
    /\ results = [t \in Tasks |-> None]
    /\ folder = Some(FolderStart)
    /\ folder_pc = "loop"

\* edf30: the next iteration of the loop over edf_files
FolderStep ==
    /\ folder_pc = "loop"
    /\ folder[1].k < NFiles
    /\ \E st \in {FolderIteration(folder[1], files[folder[1].k + 1], folder[1].k + 1)} :
           /\ folder' = Some(st)
           /\ folder_pc' = IF st.escaped THEN "raised" ELSE "loop"
    /\ UNCHANGED <<files, engineVars, scanVars, poolVars, episodeVars, maskVars, signalVars, beatVars>>

\* edf30: return processed_files
FolderReturn ==
    /\ folder_pc = "loop"
    /\ folder[1].k = NFiles
    /\ folder_pc' = "returned"
    /\ UNCHANGED <<files, engineVars, scanVars, poolVars, episodeVars, maskVars, signalVars, folder, beatVars>>

\* the two programs are run on the directory one after the other: edf30's
\* loop, then the psg_edf pool
NextBatch == FolderStep \/ FolderReturn \/ (folder_pc # "loop" /\ NextPool)

SpecBatch == InitBatch /\ [][NextBatch]_vars

----------------------------------------------------------------------------
(* One analyzer, the files one after another: process_file of psg_edf      *)
(* called again on the same SQLGenerator once the previous call has        *)
(* returned, and the loop of edf30's process_edf_folder                    *)

\* recordings that differ in every metric: N2 only, REM only (edf30 raises
\* midway on it), and Wake, N3, REM
SerialRecordings ==
    { Recording(<<Ann(Stage2, 300)>>), Recording(<<Ann(StageR, 300)>>),
      Recording(<<Ann(StageW, 300), Ann(Stage3, 300), Ann(StageR, 300)>>) }

SerialFiles(k) ==
    {EdfFile(TRUE, Some(Uuid(k)), rec) : rec \in SerialRecordings \cup {EmptyRecording}}
    \cup {EdfFile(TRUE, None, Recording(<<Ann(Stage1, 300)>>)), UnreadableFile}

\* a fresh SleepAnalyzer of each program; `results` collects what the calls
\* of process_file returned, in order
InitSerial ==
    /\ files \in {f \in [Tasks -> UNION {SerialFiles(k) : k \in Tasks}] :
                      \A k \in Tasks : f[k] \in SerialFiles(k)}
    /\ raw = None /\ stages = None
    /\ path = 1 /\ pc = "load" /\ uuid = None /\ result = None /\ arch30 = None
    /\ ScanIdle /\ EpisodesIdle /\ MaskIdle /\ SignalIdle /\ BeatIdle
    /\ wpc = <<>> /\ wlocal = <<>> /\ results = <<>>
    /\ folder = Some(FolderStart)
    /\ folder_pc = "loop"

\* process_file has returned: its value is kept, and the next file, if any,
\* is processed by the same analyzer (self.raw and self.stages stay)
ProcessFileReturn ==
    /\ pc = "done"
    /\ results' = Append(results, result)
    /\ IF path < Len(files)
       THEN path' = path + 1 /\ pc' = "load"
       ELSE path' = path /\ pc' = "finished"
    /\ uuid' = None /\ result' = None
    /\ UNCHANGED <<files, raw, stages, arch30, scanVars, auxVars, wpc, wlocal>>

NextSerial ==
    LoadEdf \/ ExtractUuid \/ GenerateSql \/ ProcessFileReturn \/ FolderStep \/ FolderReturn

SpecSerial == InitSerial /\ [][NextSerial]_vars

----------------------------------------------------------------------------
(* edf30: analyze_heart_rate_comprehensive, one statement group per step.  *)
(* Times are in tenths of a second, sample indices count from 0 as in the  *)
(* code, and position k of a sequence holds sample k - 1.  A recording     *)
(* carries its sampling rate and whether that number is a Python int       *)
(* (MNE delivers a float).                                                 *)

BeatRecording(annotations, ch_names, data, n_times, sfreq, sfreq_is_int) ==
    [annotations |-> annotations, ch_names |-> ch_names, data |-> data,
     sfreq |-> sfreq, sfreq_is_int |-> sfreq_is_int, n_times |-> n_times]

\* ANALYSIS_CONFIG['ecg']: rr_min and rr_max in tenths of a second
Edf30RateLimits == [rr_min |-> 3, rr_max |-> 20, hr_min |-> 40, hr_max |-> 150]

\* `if len(r_peaks) <= 100: return self._analyze_heart_rate_from_markers()`
MinBeats == 100

\* `if len(heart_rates) > 5:`
MinRates == 5

\* `if len(ecg_clean) > 100:` -- longer signals go through the band-pass filter
FilterMinSamples == 100

\* int(x * sfreq) for the decimal x = hundredths / 100
IntTimes(hundredths, sfreq) ==
    IF (hundredths * sfreq) % 100 # 0 THEN (hundredths * sfreq) \div 100
    ELSE Trunc(Times(Over(Float(hundredths), Float(100)), Float(sfreq)))

\* SleepAnalyzer._analyze_heart_rate_from_markers
analyze_heart_rate_from_markers(r) ==
    [avg_heart_rate |-> None, min_heart_rate |-> None, max_heart_rate |-> None,
     heart_rate_variability |-> None, artifact_regions_excluded |-> 0,
     tachycardia_events |-> TachyCount(r[1].annotations),
     bradycardia_events |-> BradyCount(r[1].annotations),
     analysis_method |-> "markers"]

\* the `results` dictionary analyze_heart_rate_comprehensive starts with
HeartRateResultsStart ==
    [avg_heart_rate |-> None, min_heart_rate |-> None, max_heart_rate |-> None,
     heart_rate_variability |-> None, artifact_regions_excluded |-> 0,
     tachycardia_events |-> 0, bradycardia_events |-> 0,
     analysis_method |-> "ecg"]

\* ecg_channels = [ch for ch in self.raw.ch_names if any(keyword in ch.lower() ...)]
Edf30EcgChannels(ch_names) == SelectSeq(ch_names, IsEcgChannel)

\* find_continuous_segments: the loop body for sample idx with mask value `value`
FindSegmentsStep(acc, idx, value, min_segment_length) ==
    IF value /\ acc.start = None THEN [acc EXCEPT !.start = Some(idx)]
    ELSE IF ~value /\ acc.start # None
    THEN [segments |-> IF idx - acc.start[1] >= min_segment_length
                       THEN Append(acc.segments, <<acc.start[1], idx>>)
                       ELSE acc.segments,
          start |-> None]
    ELSE acc

RECURSIVE FindSegmentsWalk(_, _, _, _, _)
FindSegmentsWalk(mask, lo, hi, acc, min_segment_length) ==
    IF lo > hi THEN acc
    ELSE IF lo = hi THEN FindSegmentsStep(acc, lo - 1, mask[lo], min_segment_length)
    ELSE LET mid == (lo + hi) \div 2
             left == FindSegmentsWalk(mask, lo, mid, acc, min_segment_length)
         IN  IF left = left THEN FindSegmentsWalk(mask, mid + 1, hi, left, min_segment_length)
             ELSE left

\* SleepAnalyzer.find_continuous_segments: the loop, then the run still open
\* at the end of the mask
find_continuous_segments(mask, min_segment_length) ==
    LET acc == FindSegmentsWalk(mask, 1, Len(mask), [segments |-> <<>>, start |-> None],
                                min_segment_length)
    IN  IF acc.start # None /\ Len(mask) - acc.start[1] >= min_segment_length
        THEN Append(acc.segments, <<acc.start[1], Len(mask)>>)
        ELSE acc.segments

\* f as an explicit table: each value is computed once, however often it is read
Tabulated(f) == IF f = f THEN f ELSE <<>>

RECURSIVE SumOver(_, _, _)
SumOver(f, lo, hi) ==
    IF lo > hi THEN 0
    ELSE IF lo = hi THEN f[lo]
    ELSE LET mid == (lo + hi) \div 2 IN SumOver(f, lo, mid) + SumOver(f, mid + 1, hi)

\* twice np.median of the values at the indices in S
Median2(values, S) ==
    LET n == Cardinality(S)
    IN  IF n % 2 = 1 THEN 2 * KthSmallest(values, S, n \div 2)
        ELSE KthSmallest(values, S, n \div 2 - 1) + KthSmallest(values, S, n \div 2)

\* 100 * np.percentile(values[S], q): linear interpolation between the two
\* order statistics around position q / 100 * (n - 1)
Percentile100(values, S, q) ==
    LET n == Cardinality(S)
        pos == q * (n - 1)
        lo == pos \div 100
        hi == Min(lo + 1, n - 1)
        a == KthSmallest(values, S, lo)
        b == KthSmallest(values, S, hi)
    IN  100 * a + (pos % 100) * (b - a)

\* scipy.signal.medfilt(x, kernel_size): the median of the window around each
\* sample, the signal padded with zeros
medfilt(x, kernel_size) ==
    LET h == kernel_size \div 2
        padded == [j \in (1 - h)..(Len(x) + h) |-> IF j \in 1..Len(x) THEN x[j] ELSE 0]
    IN  Tabulated([j \in 1..Len(x) |-> KthSmallest(padded, (j - h)..(j + h), h)])

\* the peak loop of detect_r_peaks for sample idx: a candidate is kept when it is
\* the first peak or at least int(0.3 * sfreq) samples after the last one
PeakStep(peaks, idx, is_candidate, min_distance) ==
    IF is_candidate /\ (peaks = <<>> \/ idx - peaks[Len(peaks)] >= min_distance)
    THEN Append(peaks, idx)
    ELSE peaks

RECURSIVE PeakWalk(_, _, _, _, _)
PeakWalk(candidate, lo, hi, peaks, min_distance) ==
    IF lo > hi THEN peaks
    ELSE IF lo = hi THEN PeakStep(peaks, lo - 1, candidate[lo], min_distance)
    ELSE LET mid == (lo + hi) \div 2
             left == PeakWalk(candidate, lo, mid, peaks, min_distance)
         IN  IF left = left THEN PeakWalk(candidate, mid + 1, hi, left, min_distance) ELSE left

\* SleepAnalyzer.detect_r_peaks.  Every exception is caught and gives an
\* empty array: on an empty signal; on more than 100 samples, where butter
\* rejects the band edge 35 / (sfreq / 2) >= 1 of a signal sampled at up to
\* 70 Hz; and with a float sampling rate, where `overlap` is a float and
\* range(0, len(ecg_smoothed), overlap) raises TypeError.  Otherwise the
\* signal is centred on its median, squared, median-filtered, compared with
\* the 85th percentile of its 5 s window (the window that starts at the last
\* multiple of `overlap` at or before the sample, as later windows overwrite
\* earlier ones; the whole signal if it is shorter than one window), and the
\* peaks found are kept where the raw sample exceeds median + 0.1 * std.
\* ecg_clean is held doubled, its square times 4, thresholds times 400.
detect_r_peaks(ecg_signal, sfreq, sfreq_is_int) ==
    LET n == Len(ecg_signal)
        S == 1..n
    IN  IF n = 0 \/ n > FilterMinSamples \/ ~sfreq_is_int THEN <<>>
        ELSE
        LET med2 == Median2(ecg_signal, S)
            ecg_squared ==
                Tabulated([j \in S |-> (2 * ecg_signal[j] - med2) * (2 * ecg_signal[j] - med2)])
            ws == IntTimes(12, sfreq)
            window_size == IF ws % 2 = 0 THEN ws + 1 ELSE ws
            ecg_smoothed == medfilt(ecg_squared, window_size)
            window_size_adaptive == 5 * sfreq
            overlap == window_size_adaptive \div 2
            globalT == Percentile100(ecg_smoothed, S, 85)
            blockT == Tabulated([b \in 0..((n - 1) \div overlap) |->
                          Percentile100(ecg_smoothed,
                              (b * overlap + 1)..Min(b * overlap + window_size_adaptive, n), 85)])
            adaptive_thresholds ==
                [j \in S |-> IF n < window_size_adaptive THEN globalT
                             ELSE blockT[(j - 1) \div overlap]]
            candidate ==
                Tabulated([j \in S |-> /\ 100 * ecg_smoothed[j] > adaptive_thresholds[j]
                                       /\ (j = 1 \/ ecg_smoothed[j] > ecg_smoothed[j - 1])
                                       /\ (j = n \/ ecg_smoothed[j] > ecg_smoothed[j + 1])])
            peaks == PeakWalk(candidate, 1, n, <<>>, IntTimes(30, sfreq))
            total == SumOver(ecg_signal, 1, n)
            squares == SumOver([j \in S |-> ecg_signal[j] * ecg_signal[j]], 1, n)
            Significant(peak) ==
                LET c == 2 * ecg_signal[peak + 1] - med2
                IN  c > 0 /\ 25 * c * c * n * n > n * squares - total * total
        IN  SelectSeq(peaks, Significant)

\* the iteration without `segment_peaks += start`
SegmentPeaksNoOffset(ecg_signal, sfreq, sfreq_is_int, segment) ==
    LET segment_ecg == SubSeq(ecg_signal, segment[1] + 1, segment[2])
    IN  IF Len(segment_ecg) > IntTimes(500, sfreq)
        THEN detect_r_peaks(segment_ecg, sfreq, sfreq_is_int)
        ELSE <<>>

\* one iteration of `for start, end in valid_segments` of _get_clean_r_peaks
SegmentPeaks(ecg_signal, sfreq, sfreq_is_int, segment) ==
    LET start == segment[1]
        end == segment[2]
        segment_ecg == SubSeq(ecg_signal, start + 1, end)
        segment_peaks == detect_r_peaks(segment_ecg, sfreq, sfreq_is_int)
    IN  IF Len(segment_ecg) > IntTimes(500, sfreq)
        THEN [k \in 1..Len(segment_peaks) |-> segment_peaks[k] + start]
        ELSE <<>>

\* the beat-count test with `<` for `<=`
TooFewBeatsStrict(r_peaks) == Len(r_peaks) < MinBeats

\* `if len(r_peaks) <= 100:`
TooFewBeats(r_peaks) == Len(r_peaks) <= MinBeats

\* SleepAnalyzer._calculate_heart_rate_metrics: the RR intervals (in samples)
\* inside (rr_min, rr_max) and, when more than one is left, the rates
\* 60 / rr inside [hr_min, hr_max].  At the 4 Hz of the model every rate
\* that is kept (120, 80, 60, 48, 40) is a whole number.
calculate_heart_rate_metrics(r_peaks, sfreq, cfg) ==
    LET rr_samples == [k \in 1..(Len(r_peaks) - 1) |-> r_peaks[k + 1] - r_peaks[k]]
        ValidRR(d) == 10 * d > cfg.rr_min * sfreq /\ 10 * d < cfg.rr_max * sfreq
        valid_rr == SelectSeq(rr_samples, ValidRR)
        ValidHR(d) == 60 * sfreq >= cfg.hr_min * d /\ 60 * sfreq <= cfg.hr_max * d
        kept == SelectSeq(valid_rr, ValidHR)
    IN  IF Len(valid_rr) > 1
        THEN [rr_intervals |-> valid_rr,
              heart_rates |-> [k \in 1..Len(kept) |-> (60 * sfreq) \div kept[k]]]
        ELSE [rr_intervals |-> <<>>, heart_rates |-> <<>>]

\* SleepAnalyzer._calculate_basic_stats: median and 5th / 95th percentile of
\* the rates, in hundredths; heart_rate_variability is
\* round(1000 / sfreq * sqrt(q), 2) for the variance q of the intervals in
\* samples, and is held as that q
calculate_basic_stats(rates, rr_intervals) ==
    LET S == DOMAIN rates
        n == Len(rr_intervals)
        total == SumOver(rr_intervals, 1, n)
        squares == SumOver([k \in 1..n |-> rr_intervals[k] * rr_intervals[k]], 1, n)
    IN  [avg_heart_rate |-> Some(50 * Median2(rates, S)),
         min_heart_rate |-> Some(Percentile100(rates, S, 5)),
         max_heart_rate |-> Some(Percentile100(rates, S, 95)),
         heart_rate_variability |-> Some(Frac(n * squares - total * total, n * n))]

\* the ECG signals of the model, sampled at 4 Hz: `nseg` stretches of 100
\* samples with a spike every `spacing` samples, each spike lower than the one
\* before, and 10 samples of artifact burst between two stretches
BeatSignal(spacing, nseg) ==
    [k \in 1..(110 * nseg - 10) |->
        LET q == (k - 1) % 110
        IN  IF q >= 100 THEN 30
            ELSE IF q % spacing = 0 THEN (100 \div spacing) + 1 - (q \div spacing)
            ELSE 0]

\* the artifact blocks over the bursts: samples 110 s + 100 .. 110 s + 109
BurstArtifacts(nseg) ==
    [s \in 1..(nseg - 1) |-> SigAnn(ArtifactMarker, 275 * s - 25, 25)]

\* spike spacing, number of stretches and artifact blocks: 25, 125, 100, 120
\* and 135 beats in clean stretches (the last with no valid rate); the 125-beat
\* signal without any block (one stretch of 540 samples); and the one-stretch
\* signal with blocks that leave a run of exactly 10 s, only runs shorter than
\* 10 s, and a last valid sample after a block that reaches the end
BeatLayouts ==
    {[spacing |-> g[1], nseg |-> g[2], blocks |-> BurstArtifacts(g[2])] :
        g \in {<<4, 1>>, <<4, 5>>, <<5, 5>>, <<5, 6>>, <<7, 9>>}}
    \cup {[spacing |-> 4, nseg |-> 5, blocks |-> <<>>]}
    \cup {[spacing |-> 4, nseg |-> 1, blocks |-> b] :
            b \in {<<SigAnn(ArtifactMarker, 0, 25), SigAnn(ArtifactMarker, 125, 25)>>,
                   <<SigAnn(ArtifactMarker, 75, 25), SigAnn(ArtifactMarker, 175, 25)>>,
                   <<SigAnn(ArtifactMarker, 225, 25)>>}}

\* no rhythm markers, or two tachycardia markers and one bradycardia marker
BeatMarkers ==
    {<<>>, <<SigAnn(TachyMarker, 0, 0), SigAnn(BradyMarker, 0, 0), SigAnn(TachyMarker, 0, 0)>>}

BeatChannels == {<<"ECG">>, <<"EEG">>, <<"EEG", "ECG">>}

\* the recordings: every layout with every marker set, channel list and kind
\* of sampling rate, and a recording without samples
BeatRecordings ==
    {BeatRecording(m \o l.blocks, ch,
                   [c \in DOMAIN ch |-> IF ch[c] = "ECG" THEN BeatSignal(l.spacing, l.nseg)
                                        ELSE [k \in 1..(110 * l.nseg - 10) |-> 0]],
                   110 * l.nseg - 10, 4, is_int) :
        l \in BeatLayouts, m \in BeatMarkers, ch \in BeatChannels, is_int \in BOOLEAN}
    \cup {BeatRecording(m, <<"ECG">>, <<(<<>>)>>, 0, 4, TRUE) : m \in BeatMarkers}

InitBeats ==
    /\ files = <<>>
    /\ raw \in {Some(r) : r \in BeatRecordings}
    /\ stages = None /\ path = 1 /\ pc = "idle" /\ uuid = None /\ result = None /\ arch30 = None
    /\ ScanIdle /\ PoolIdle /\ EpisodesIdle /\ MaskIdle /\ SignalIdle /\ FolderIdle
    /\ valid_segments = None /\ seg_k = 0 /\ all_r_peaks = <<>>
    /\ hr_results = None /\ beat_pc = "start"

\* analyze_heart_rate_comprehensive up to the segment loop of
\* _get_clean_r_peaks: without an ECG channel the marker result is returned;
\* without a mask (a recording that is falsy) the whole signal, which is then
\* empty, gives no beat and len(artifact_regions) raises on None, so the
\* handler returns the marker result; otherwise the valid segments of the
\* mask are found
HrBegin ==
    /\ beat_pc = "start"
    /\ IF Edf30EcgChannels(raw[1].ch_names) = <<>>
       THEN /\ hr_results' = Some(analyze_heart_rate_from_markers(raw))
            /\ beat_pc' = "returned"
            /\ UNCHANGED <<valid_mask30, valid_segments>>
       ELSE \E masks \in {edf30_get_artifact_masks(raw)} :
                /\ valid_mask30' = Some(masks)
                /\ IF masks.mask = None
                   THEN /\ hr_results' = Some(analyze_heart_rate_from_markers(raw))
                        /\ beat_pc' = "returned"
                        /\ UNCHANGED valid_segments
                   ELSE /\ valid_segments' =
                              Some(find_continuous_segments(masks.mask[1],
                                                            IntTimes(1000, raw[1].sfreq)))
                        /\ beat_pc' = "peaks"
                        /\ UNCHANGED hr_results
    /\ UNCHANGED <<files, engineVars, scanVars, poolVars, episodeVars, signalVars, folderVars,
                   valid_mask, seg_k, all_r_peaks>>

\* for start, end in valid_segments: one iteration
HrSegmentPeaks ==
    /\ beat_pc = "peaks"
    /\ seg_k < Len(valid_segments[1])
    /\ LET ecg_signal == ChannelData(raw, Edf30EcgChannels(raw[1].ch_names)[1])
       IN  all_r_peaks' = all_r_peaks \o SegmentPeaks(ecg_signal, raw[1].sfreq, raw[1].sfreq_is_int,
                                                       valid_segments[1][seg_k + 1])
    /\ seg_k' = seg_k + 1
    /\ UNCHANGED <<files, engineVars, scanVars, poolVars, episodeVars, maskVars, signalVars,
                   folderVars, valid_segments, hr_results, beat_pc>>

\* after the loop: the beat-count test, the rates, the test on their number,
\* the basic statistics and the call of _detect_heart_rate_episodes
HrMetrics ==
    /\ beat_pc = "peaks"
    /\ seg_k = Len(valid_segments[1])
    /\ LET metrics == calculate_heart_rate_metrics(all_r_peaks, raw[1].sfreq, Edf30RateLimits)
           excluded == Len(valid_mask30[1].regions[1])
       IN  IF TooFewBeats(all_r_peaks) \/ ~(Len(metrics.heart_rates) > MinRates)
           THEN /\ hr_results' = Some(analyze_heart_rate_from_markers(raw))
                /\ beat_pc' = "returned"
                /\ UNCHANGED episodeVars
           ELSE /\ hr_results' =
                      Some([f \in DOMAIN HeartRateResultsStart |->
                               LET stats == calculate_basic_stats(metrics.heart_rates,
                                                                  metrics.rr_intervals)
                               IN  IF f \in DOMAIN stats THEN stats[f]
                                   ELSE IF f = "artifact_regions_excluded" THEN excluded
                                   ELSE HeartRateResultsStart[f]])
                /\ heart_rates' = metrics.heart_rates
                /\ hr_k' = 0 /\ ep' = None
                /\ ep_cfg' = Some(Edf30EcgConfig)
                /\ ep_pc' = "start"
                /\ beat_pc' = "episodes"
    /\ UNCHANGED <<files, engineVars, scanVars, poolVars, maskVars, signalVars, folderVars,
                   valid_segments, seg_k, all_r_peaks>>

\* results.update(self._detect_heart_rate_episodes(heart_rates)); return results
HrReturn ==
    /\ beat_pc = "episodes"
    /\ ep_pc = "returned"
    /\ hr_results' = Some([hr_results[1] EXCEPT
                              !.tachycardia_events = EpisodesOf(ep[1]).tachycardia_events,
                              !.bradycardia_events = EpisodesOf(ep[1]).bradycardia_events])
    /\ beat_pc' = "returned"
    /\ UNCHANGED <<files, engineVars, scanVars, poolVars, episodeVars, maskVars, signalVars,
                   folderVars, valid_segments, seg_k, all_r_peaks>>

NextBeats ==
    HrBegin \/ HrSegmentPeaks \/ HrMetrics \/ EpisodeBegin \/ EpisodeScan \/ EpisodeReturn \/ HrReturn

SpecBeats == InitBeats /\ [][NextBeats]_vars

----------------------------------------------------------------------------
(* calculate_stages and calculate_sleep_quality on loaded recordings that   *)
(* reach every tier of the score                                           *)

\* the numbers of Wake, N2 and N3 epochs, of N2 R R blocks (each closed by
\* the N2 that follows it), and of apnea, activation, tachycardia,
\* bradycardia and REM event markers of a night
QualityWake == {0, 5, 12, 40}
QualityN2 == {1, 20}
QualityN3 == {0, 6}
QualityBlocks == {0, 1, 3, 4}
QualityApneas == {0, 1, 3, 8}
QualityActivations == {0, 2, 5}
QualityTachy == {0, 1, 6, 11}
QualityBrady == {0, 6}
QualityRemEvents == {0, 12}

RemBlocks(k) ==
    IF k = 0 THEN <<>>
    ELSE Concat(Rep(<<Ann(Stage2, 300), Ann(StageR, 300), Ann(StageR, 300)>>, k))
         \o <<Ann(Stage2, 300)>>

QualityNights ==
    { Rep(Ann(StageW, 300), w) \o Rep(Ann(Stage2, 300), n2) \o Rep(Ann(Stage3, 300), n3)
      \o RemBlocks(k)
      \o Rep(Ann(ObstructiveApnea, 0), a) \o Rep(Ann(Activation, 0), c)
      \o Rep(Ann(TachyMarker, 0), t) \o Rep(Ann(BradyMarker, 0), b)
      \o Rep(Ann(REMEvent, 0), re) :
      w \in QualityWake, n2 \in QualityN2, n3 \in QualityN3, k \in QualityBlocks,
      a \in QualityApneas, c \in QualityActivations, t \in QualityTachy,
      b \in QualityBrady, re \in QualityRemEvents }

\* a recording is loaded; neither method has been called
InitQuality ==
    /\ files = <<>>
    /\ raw \in {Some(Recording(a)) : a \in QualityNights}
    /\ stages = None
    /\ path = 1 /\ pc = "loaded" /\ uuid = None /\ result = None /\ arch30 = None
    /\ ScanIdle /\ PoolIdle /\ AuxIdle

\* self.stages = stages of calculate_stages
CalculateStages ==
    /\ pc = "loaded"
    /\ stages' = calculate_stages(raw)
    /\ pc' = "staged"
    /\ UNCHANGED <<files, path, raw, uuid, result, arch30, scanVars, poolVars, auxVars>>

\* calculate_sleep_quality, before or after calculate_stages ({} is None here)
CalculateSleepQuality ==
    /\ pc \in {"loaded", "staged"}
    /\ result' = calculate_sleep_quality(raw, stages)
    /\ pc' = "scored"
    /\ UNCHANGED <<files, path, raw, stages, uuid, arch30, scanVars, poolVars, auxVars>>

NextQuality == CalculateStages \/ CalculateSleepQuality

SpecQuality == InitQuality /\ [][NextQuality]_vars

----------------------------------------------------------------------------
(* Properties.  Data, Done and Annotations name what the properties read.   *)

\* the sequential run has returned from process_file
Done == pc = "done"
\* the annotation stream of the file being processed
Annotations == files[path].raw.annotations
\* the dict sql_data of the produced bundle
Data == result[1].data
\* how many annotations carry `label` with a duration strictly between lo and
\* hi (tenths of a second)
CountBetween(label, lo, hi) ==
    Cardinality({k \in DOMAIN Annotations :
                     /\ Annotations[k].desc = label
                     /\ lo < Annotations[k].dur /\ Annotations[k].dur < hi})

\* the scan's machine after its first j iterations
ScanAfter(j) == RemScan(sequence, 1, j, ScanStart)
\* iteration j opened a cycle / met Wake with a cycle open
Opened(j) == ~ScanAfter(j - 1).in_rem /\ ScanAfter(j).in_rem
WakeWhileOpen(j) == ScanAfter(j - 1).in_rem /\ sequence[j + 1] = "W"

----------------------------------------------------------------------------
\* C1: calculate_rem_cycles on the literal thirty-second-epoch sequence
\* [N2, R, N2, R, W, R, N2] returns a cycle count of exactly 1.
C1_LiteralSequenceCountsOne ==
    (scan_pc = "returned" /\ raw = Some(Recording(LiteralScanStream))) => cycles = 1

\* C2: the composite sleep-quality score that is reported lies in 0..100 for
\* every recording: never above 100 and never negative.
C2_ScoreWithinRange ==
    (Done /\ result # None /\ Data.overall_sleep_quality # None)
        => Data.overall_sleep_quality[1] \in 0..100

\* C3 (as stated): in calculate_stages a stage annotation of 28.9 s contributes
\* one epoch to its stage and one of 28.0 s contributes none; every stage's
\* count is the number of its annotations lasting from 28.9 s to 31.1 s.
C3_Counts289 ==
    (Done /\ stages # None) =>
        \A label \in StageLabels :
            stages[1][StagesMapping[label]].count
                = CountBetween(label, 288, 312)

\* C3 (amended): the cutoff is strict.  Every stage's count, and its minutes
\* at half a minute per epoch, come from exactly its annotations whose duration
\* is more than 29.0 s and less than 31.0 s; 29.1 s counts, 28.9 s and 28.0 s
\* do not.
C3_StrictCutoff ==
    (Done /\ stages # None) =>
        \A label \in StageLabels :
            LET n == CountBetween(label, 290, 310)
            IN  /\ stages[1][StagesMapping[label]].count = n
                /\ stages[1][StagesMapping[label]].minutes = 5 * n

\* a finished run over a stage annotation of 28.9 s (not counted) and one of
\* 29.1 s (counted)
C3_Witness ==
    /\ Done /\ stages # None
    /\ \E j, k \in DOMAIN Annotations :
          /\ Annotations[j].desc \in StageLabels /\ Annotations[j].dur = 289
          /\ Annotations[k].desc \in StageLabels /\ Annotations[k].dur = 291
    /\ SumMinutes(stages[1], StageNames) = 5

\* C4: the efficiency returned by calculate_efficiency lies in [0, 100], and
\* is 100 exactly when the Wake minutes are 0 and the bed time is greater than
\* 0.  (calculate_stages keeps a sixth stage, Unknown, and line 431 sums the
\* bed time over every stage of the table: one N2 epoch and one Unknown epoch
\* give 50 with no Wake minute.)
C4_FullIffNoWake ==
    (Done /\ stages # None) =>
        LET e == calculate_efficiency(stages)[1]
        IN  /\ e.sleep_efficiency.n >= 0
            /\ e.sleep_efficiency.n <= 100 * e.sleep_efficiency.d
            /\ (e.sleep_efficiency.n = 100 * e.sleep_efficiency.d
                  <=> (stages[1]["Wake"].minutes = 0 /\ e.total_bed_time > 0))

\* C5: on the thread pool every run is self-contained: whatever the
\* interleaving, the output of a task is the one a run alone on its file
\* produces, from that file's own data and stages and under its own UUID.
C5_RunsSelfContained ==
    \A t \in Tasks :
        (wpc[t] = "done" /\ results[t] # None)
            => results[t] = generate_sql(Some(files[t].raw), t, files[t].uuid[1])

\* C6: when the total sleep time is 0, the AHI, ODI, snore index,
\* fragmentation index and arousal index of the bundle are all exactly 0,
\* whatever the numbers of respiratory, activation and limb annotations.
C6_ZeroSleepZeroIndices ==
    (Done /\ result # None /\ TotalSleep(stages[1]) = 0) =>
        /\ Data.ahi = 0
        /\ Data.odi = 0
        /\ Data.snore_index = 0
        /\ Data.sleep_fragmentation_index = 0
        /\ Data.arousal_index = 0
        /\ Data.ahi_obstructive = 0 /\ Data.ahi_central = 0 /\ Data.ahi_mixed = 0

\* a bundle of a night without sleep that has Wake time, apneas and activations
C6_Witness ==
    /\ Done /\ result # None
    /\ TotalSleep(stages[1]) = 0
    /\ stages[1]["Wake"].count > 0
    /\ Data.total_apneas > 0
    /\ Data.total_arousals > 0

\* C7: no metric computation fails on a zero denominator: the architecture of
\* the older pipeline (with its REM/NREM ratio) returns instead of raising, and
\* a run that reaches generate_sql returns a bundle.
C7_NoZeroDenominatorFailure ==
    /\ arch30 # None => ~arch30[1].raised
    /\ (Done /\ uuid # None) => result # None

\* process_file's own test of a successful load (line 873): the file was read
\* and the recording holds at least one sample
Loaded(f) == ~NoRecording(load_edf(f))

\* C8 (as stated): every recording that loads gets a bundle, also one whose
\* header holds no UUID.
C8_BundleForEveryLoaded ==
    (Done /\ Loaded(files[path])) => result # None

\* C8 (amended): process_file produces a bundle exactly for the recordings
\* that load (a recording of no samples counts as not loaded, line 873) and
\* whose header yields a UUID; the bundle carries that UUID, and
\* with no usable channel the heart-rate, SpO2 and respiration statistics are
\* None and the times below 90 % and 85 % are 0.  A recording without a UUID
\* gets nothing.
C8_BundleIffLoadedAndUuid ==
    Done =>
        /\ result # None <=> (Loaded(files[path]) /\ files[path].uuid # None)
        /\ result # None =>
              /\ result[1].uuid = files[path].uuid[1]
              /\ result[1].file = path
              /\ Data.avg_heart_rate = None /\ Data.heart_rate_variability = None
              /\ Data.avg_spo2 = None /\ Data.min_spo2 = None
              /\ Data.avg_resp_rate = None
              /\ Data.time_below_spo2_90 = 0 /\ Data.time_below_spo2_85 = 0

\* a recording with sleep that loaded, has no UUID, and got no bundle
C8_Witness ==
    /\ Done /\ raw # None
    /\ files[path].loadable /\ files[path].uuid = None
    /\ \E k \in DOMAIN Annotations : Annotations[k] = Ann(Stage2, 300)
    /\ result = None

\* C9: in the REM-cycle scan the counter never increments on an iteration
\* whose current epoch is Wake; Wake met with a cycle open closes it without
\* counting; and a counted cycle is the one opened last, with no Wake among
\* the current epochs from its opening to the iteration that counts it.
C9_WakeNeverCounts ==
    [][ (scan_pc = "scan" /\ i' = i + 1) =>
          LET current == sequence[i + 1]
          IN  /\ current = "W" => cycles' = cycles
              /\ (in_rem /\ current = "W")
                    => (~in_rem' /\ ~rem_started' /\ cycles' = cycles)
              /\ cycles' # cycles =>
                    /\ cycles' = cycles + 1
                    /\ \E j \in 1..(i - 1) :
                          /\ Opened(j)
                          /\ \A m \in (j + 1)..(i - 1) : ~Opened(m)
                          /\ \A m \in j..i : sequence[m + 1] # "W"
      ]_vars

\* a finished scan that met Wake with a cycle open and later counted a cycle
C9_Witness ==
    /\ scan_pc = "returned" /\ cycles = 1
    /\ \E j \in 1..(Len(sequence) - 2) : WakeWhileOpen(j) /\ ~ScanAfter(j).in_rem

\* C10: for 480 thirty-second N2 epochs and nothing else the pipeline reports
\* sleep_efficiency 100, rem_percentage 0 with the architecture defined,
\* rem_cycles 0, ahi 0, and the composite score 70 with status 'horoshee'.
C10_AllN2Night ==
    (Done /\ files[path].raw = Recording(AllN2Night) /\ files[path].uuid # None) =>
        /\ result # None
        /\ Data.sleep_efficiency = 10000
        /\ calculate_architecture(stages) # None
        /\ Data.rem_percentage = 0 /\ Data.n2_percentage = 10000
        /\ Data.rem_cycles = 0
        /\ Data.ahi = 0
        /\ Data.overall_sleep_quality = Some(70)
        /\ Data.sleep_quality_status = Some("horoshee")
        /\ TierGE(CONFIG.sleep_quality.efficiency_weights, 1,
                  calculate_efficiency(stages)[1].sleep_efficiency) = 25
        /\ TierLT(CONFIG.sleep_quality.ahi_weights, 1, Zero) = 30
        /\ TierLT(CONFIG.sleep_quality.arousal_weights, 1, Zero) = 15
        /\ QualityRawScore(raw, stages) = 7000

\* the bundle of the all-N2 night: 240 minutes of sleep in 480 epochs
C10_Witness ==
    /\ Done /\ result # None
    /\ files[path].raw = Recording(AllN2Night)
    /\ Data.total_sleep_time = 240 /\ Data.n2_minutes = 240
    /\ stages[1]["N2"].count = 480

----------------------------------------------------------------------------
\* an annotation that is a stage epoch: a label of the stage table with a
\* duration more than 29.0 s and less than 31.0 s
IsStageEpoch(a) == a.desc \in StageLabels /\ 290 < a.dur /\ a.dur < 310
\* the same for the four sleep stages, and for REM
IsSleepEpoch(a) == a.desc \in {Stage1, Stage2, Stage3, StageR} /\ 290 < a.dur /\ a.dur < 310
IsRemEpoch(a) == a.desc = StageR /\ 290 < a.dur /\ a.dur < 310

\* the sum of the durations of the annotations before the k-th
RECURSIVE Elapsed(_)
Elapsed(k) == IF k <= 1 THEN 0 ELSE Elapsed(k - 1) + Annotations[k - 1].dur

\* the positions of the sleep epochs and of the REM epochs of the stream
SleepEpochs == {k \in DOMAIN Annotations : IsSleepEpoch(Annotations[k])}
RemEpochs == {k \in DOMAIN Annotations : IsRemEpoch(Annotations[k])}
\* the first position of a non-empty set of positions
First(S) == CHOOSE k \in S : \A m \in S : k <= m

\* C12: after calculate_stages (and calculate_sleep_stages of the older
\* pipeline) every stage's minutes are exactly half its epoch count, and the
\* annotations that are no stage epoch change nothing: the table is the one of
\* the stream with them removed.
C12_MinutesAreHalfCount ==
    (Done /\ stages # None) =>
        LET epochs == SelectSeq(Annotations, IsStageEpoch)
            old == edf30_calculate_sleep_stages(raw)[1]
        IN  /\ \A s \in StageNames : stages[1][s].minutes * 2 = 10 * stages[1][s].count
            /\ stages = calculate_stages(Some(Recording(epochs)))
            /\ SumMinutes(stages[1], StageNames) = 5 * Len(epochs)
            /\ \A s \in Edf30StageNames : old[s].minutes * 2 = 10 * old[s].count
            /\ old = edf30_calculate_sleep_stages(Some(Recording(epochs)))[1]

\* a finished run over a stage epoch and an annotation that is none
C12_Witness ==
    /\ Done /\ stages # None
    /\ SumMinutes(stages[1], StageNames) = 5
    /\ Len(Annotations) = 2
    /\ \E k \in DOMAIN Annotations : Annotations[k].desc \in StageLabels /\ Annotations[k].dur = 289

\* C17: whenever the stream holds a qualifying N1/N2/N3/REM epoch, the
\* sleep-onset latency of calculate_latencies is defined and is the elapsed
\* time at the first such epoch (in minutes), also when that time is 0.
C17_OnsetLatencyDefined ==
    (Done /\ raw # None /\ SleepEpochs # {}) =>
        LET lat == calculate_latencies(raw)[1].sleep_onset_latency
        IN  lat # None /\ lat[1].n = Elapsed(First(SleepEpochs)) /\ lat[1].d = 600

\* C18: the REM latency of calculate_latencies is defined exactly when a first
\* sleep epoch and a first REM epoch both exist, and is then the elapsed time
\* at the first REM epoch minus the one at sleep onset, divided by 60.
C18_RemLatencyIffBoth ==
    (Done /\ raw # None) =>
        LET lat == calculate_latencies(raw)[1].rem_latency
        IN  IF SleepEpochs # {} /\ RemEpochs # {}
            THEN /\ lat # None /\ lat[1].d = 600
                 /\ lat[1].n = Elapsed(First(RemEpochs)) - Elapsed(First(SleepEpochs))
            ELSE lat = None

\* C20: when the total sleep time is 0 the four architecture percentages are
\* None, from calculate_architecture and in the bundle of generate_sql.
C20_PercentagesNoneWithoutSleep ==
    (Done /\ result # None /\ TotalSleep(stages[1]) = 0) =>
        LET architecture == calculate_architecture(stages)
        IN  /\ architecture = None
            /\ \A key \in {"n1_percentage", "n2_percentage", "n3_percentage", "rem_percentage"} :
                  BundlePercentage(architecture, key) = None

----------------------------------------------------------------------------
(* Heart-rate episodes *)

\* indices of the rates scanned so far that lie beyond each threshold
TachyRates == {k \in 1..hr_k : heart_rates[k] > ep_cfg[1].tachycardia_threshold}
BradyRates == {k \in 1..hr_k : heart_rates[k] < ep_cfg[1].bradycardia_threshold}

\* the first index of every maximal run of consecutive indices of B
RunStarts(B) == {a \in B : (a - 1) \notin B}

\* the last index of the maximal run that starts at a
RunEnd(B, a) == CHOOSE b \in a..hr_k : (\A k \in a..b : k \in B) /\ (b + 1) \notin B

\* the maximal runs that hold at least min_consecutive rates
LongRuns(B) ==
    {a \in RunStarts(B) : \A k \in a..(a + ep_cfg[1].min_consecutive_events - 1) : k \in B}

\* length of the run of B that ends at the last rate scanned (0 if that rate is not in B)
TrailingRun(B) ==
    hr_k - (CHOOSE j \in 0..hr_k : j \notin B /\ \A k \in (j + 1)..hr_k : k \in B)

(* C19: at every point of the scan the number of tachycardia episodes      *)
(* counted equals the number of maximal runs of rates strictly above the   *)
(* tachycardia threshold that have reached min_consecutive rates (a        *)
(* shorter run counts nothing, a longer one counts once); the counter is   *)
(* the length of the run in progress, 0 after a rate that is not beyond    *)
(* the threshold, and the episode is open exactly while that run has the   *)
(* minimum length; likewise for bradycardia below its threshold.           *)
C19_OneEpisodePerRun ==
    ep # None =>
        /\ ep[1].tachycardia_events = Cardinality(LongRuns(TachyRates))
        /\ ep[1].bradycardia_events = Cardinality(LongRuns(BradyRates))
        /\ ep[1].tachy_count = TrailingRun(TachyRates)
        /\ ep[1].brady_count = TrailingRun(BradyRates)
        /\ ep[1].tachy_episode = (TrailingRun(TachyRates) >= ep_cfg[1].min_consecutive_events)
        /\ ep[1].brady_episode = (TrailingRun(BradyRates) >= ep_cfg[1].min_consecutive_events)

\* a tachycardia run longer than the minimum counted once and was closed by
\* a later rate, and a bradycardia run one short of the minimum counted nothing
C19_Witness ==
    /\ ep_pc = "returned"
    /\ EpisodesOf(ep[1]) = [tachycardia_events |-> 1, bradycardia_events |-> 0]
    /\ \E a \in RunStarts(TachyRates) :
          /\ RunEnd(TachyRates, a) - a + 1 > ep_cfg[1].min_consecutive_events
          /\ RunEnd(TachyRates, a) < hr_k
    /\ \E a \in RunStarts(BradyRates) :
          RunEnd(BradyRates, a) - a + 1 = ep_cfg[1].min_consecutive_events - 1
    /\ ~ep[1].tachy_episode

----------------------------------------------------------------------------
(* Artifact masks *)

\* the samples (0-based) of the recording that lie in the block of annotation a
BlockSamples(a) ==
    LET start == SampleOf(a.onset, raw[1].sfreq)
        end == EndSampleOf(a.onset, a.dur, raw[1].sfreq)
    IN  {j \in 0..(raw[1].n_times - 1) : start <= j /\ j < end}

ArtifactAnns ==
    {k \in DOMAIN raw[1].annotations : Contains(raw[1].annotations[k].desc, ArtifactMarker)}

\* the samples between two consecutive sensor events more than 5 s and at least 10 s apart
GapSamples ==
    LET times == HeartbeatTimes(raw[1].annotations)
        long == {k \in 1..(Len(times) - 1) :
                    /\ IntervalCmp(times[k], times[k + 1], 5) > 0
                    /\ IntervalCmp(times[k], times[k + 1], 10) >= 0}
        ranges == {<<SampleOf(times[k], raw[1].sfreq), SampleOf(times[k + 1], raw[1].sfreq)>> :
                      k \in long}
    IN  {j \in 0..(raw[1].n_times - 1) : \E r \in ranges : r[1] <= j /\ j < r[2]}

IsArtifactRegion(region) == "type" \notin DOMAIN region

\* what the claim requires of a mask and its regions
MaskCoversBlocks(mask, regions) ==
    /\ Len(mask) = raw[1].n_times
    /\ \A k \in ArtifactAnns : \A j \in BlockSamples(raw[1].annotations[k]) : ~mask[j + 1]
    /\ \A j \in (0..(raw[1].n_times - 1))
                  \ (GapSamples \cup UNION {BlockSamples(raw[1].annotations[k]) : k \in ArtifactAnns}) :
          mask[j + 1]
    /\ Len(SelectSeq(regions, IsArtifactRegion))
          = Cardinality({k \in ArtifactAnns :
                            SampleOf(raw[1].annotations[k].onset, raw[1].sfreq) < raw[1].n_times})

(* C15: the mask returned by either builder (psg_edf get_artifact_mask,     *)
(* edf30 get_artifact_masks) has every sample of every artifact block      *)
(* false, the last sample of the recording included when a block reaches   *)
(* or passes the end; every sample outside all artifact blocks and         *)
(* heartbeat-gap regions true; and one region per artifact annotation that *)
(* starts inside the recording.                                            *)
C15_MaskCoversBlocks ==
    /\ valid_mask # None => MaskCoversBlocks(valid_mask[1].mask[1], valid_mask[1].regions)
    /\ valid_mask30 # None => MaskCoversBlocks(valid_mask30[1].mask[1], valid_mask30[1].regions[1])

----------------------------------------------------------------------------
(* Channel analyzers *)

HasChannel(r, role) ==
    \E k \in DOMAIN r[1].ch_names :
        \/ role = "ecg" /\ IsEcgChannel(r[1].ch_names[k])
        \/ role = "spo2" /\ IsSpo2Channel(r[1].ch_names[k])
        \/ role = "resp" /\ IsRespChannel(r[1].ch_names[k])

\* the SpO2 samples of the recording
Spo2Samples == ChannelData(raw, "SpO2")

(* C11: for every SpO2 signal and validity mask, the number of unmasked,   *)
(* in-range samples below 90 is at least the number below 85, and the      *)
(* reported time_below_spo2_90 is at least the reported time_below_spo2_85 *)
(* (analyze_spo2 of psg_edf and analyze_spo2_channel_fast of edf30).       *)
C11_Below90AtLeastBelow85 ==
    /\ (spo2_result # None /\ HasChannel(raw, "spo2")) =>
          /\ Spo2Below(Spo2Samples, get_artifact_mask(raw).mask, CONFIG.spo2, CONFIG.spo2.threshold_90)
                >= Spo2Below(Spo2Samples, get_artifact_mask(raw).mask, CONFIG.spo2, CONFIG.spo2.threshold_85)
          /\ spo2_result[1].time_below_spo2_90 >= spo2_result[1].time_below_spo2_85
    /\ (spo2_result30 # None /\ HasChannel(raw, "spo2")) =>
          /\ Spo2Below(Spo2Samples, edf30_get_artifact_masks(raw).mask, CONFIG.spo2, CONFIG.spo2.threshold_90)
                >= Spo2Below(Spo2Samples, edf30_get_artifact_masks(raw).mask, CONFIG.spo2, CONFIG.spo2.threshold_85)
          /\ spo2_result30[1].time_below_spo2_90 >= spo2_result30[1].time_below_spo2_85

\* part of the signal is masked out, some unmasked samples are below 85 and
\* more are below 90: a minute below 90 is reported and none below 85
C11_Witness ==
    /\ spo2_result # None /\ HasChannel(raw, "spo2")
    /\ \E k \in DOMAIN get_artifact_mask(raw).mask[1] : ~get_artifact_mask(raw).mask[1][k]
    /\ Spo2Below(Spo2Samples, get_artifact_mask(raw).mask, CONFIG.spo2, CONFIG.spo2.threshold_85) > 0
    /\ spo2_result[1].time_below_spo2_90 = 1
    /\ spo2_result[1].time_below_spo2_85 = 0

\* the four rate statistics of an analyze_ecg result, the three of an
\* analyze_respiration result
EcgRates(res) ==
    <<res.avg_heart_rate, res.min_heart_rate, res.max_heart_rate, res.heart_rate_variability>>

RespRates(res) == <<res.avg_resp_rate, res.min_resp_rate, res.max_resp_rate>>

(* C14: on a recording without a channel matching a role the analyzer of   *)
(* that role returns its degraded result and raises nothing: analyze_ecg   *)
(* the four rate statistics None, analyze_spo2 avg/min/baseline None and   *)
(* both time-below values 0, analyze_respiration the three rates None.     *)
C14_DegradedWithoutChannel ==
    raw # None =>
        /\ ~HasChannel(raw, "ecg") =>
              /\ analyze_ecg(raw) # None
              /\ EcgRates(analyze_ecg(raw)[1]) = <<None, None, None, None>>
              /\ ecg_result \in {None, analyze_ecg(raw)}
        /\ ~HasChannel(raw, "spo2") =>
              /\ analyze_spo2(raw) = Some(Spo2Degraded)
              /\ spo2_result \in {None, Some(Spo2Degraded)}
        /\ ~HasChannel(raw, "resp") =>
              /\ analyze_respiration(raw) # None
              /\ RespRates(analyze_respiration(raw)[1]) = <<None, None, None>>
              /\ resp_result \in {None, analyze_respiration(raw)}

\* all three analyzers have run on a recording that has only an EEG channel
\* and carries a tachycardia marker
C14_Witness ==
    /\ raw # None
    /\ ~HasChannel(raw, "ecg") /\ ~HasChannel(raw, "spo2") /\ ~HasChannel(raw, "resp")
    /\ ecg_result # None /\ spo2_result # None /\ resp_result # None
    /\ ecg_result[1].tachycardia_events = 1
    /\ EcgRates(ecg_result[1]) = <<None, None, None, None>>
    /\ spo2_result[1] = Spo2Degraded
    /\ RespRates(resp_result[1]) = <<None, None, None>>

\* the objects that the locals loc name
HeldBy(loc) == {loc[f][1] : f \in {g \in RefLocals : loc[g] # None}}

\* a statement of one analyzer: the recording, the configuration and the stage
\* table are as before; a result once returned stays; and an analyzer that
\* has not moved has its locals, its result and every object its locals name
\* as before
AnalyzerFrame ==
    /\ raw' = raw /\ config' = config /\ stages' = stages
    /\ \A a \in Analyzers :
          /\ AnalyzerResult(a) # None => AnalyzerResult(a)' = AnalyzerResult(a)
          /\ an_pc'[a] = an_pc[a] =>
                /\ an_local'[a] = an_local[a]
                /\ AnalyzerResult(a)' = AnalyzerResult(a)
                /\ \A ref \in HeldBy(an_local[a]) :
                      ObjectAt(ref, raw', config', arrays') = ObjectAt(ref, raw, config, arrays)

\* however the statements of the three were interleaved, what an analyzer
\* returned is what it returns when it runs alone on the recording (which
\* AnalyzerFrame keeps as it was loaded), and is the dictionary it created
AnalyzerResultsFixed ==
    /\ ecg_result # None =>
          ecg_result = analyze_ecg(raw) /\ arrays[Ref("ecg", "stats")] = ecg_result
    /\ spo2_result # None =>
          spo2_result = analyze_spo2(raw) /\ arrays[Ref("spo2", "stats")] = spo2_result
    /\ resp_result # None =>
          resp_result = analyze_respiration(raw) /\ arrays[Ref("resp", "stats")] = resp_result

(* C16: analyze_ecg, analyze_spo2 and analyze_respiration only read the    *)
(* recording and the mask: every statement of an analyzer leaves the       *)
(* recording's samples and annotations, the configuration and the stage    *)
(* table unchanged and writes only into objects that analyzer's call has   *)
(* created, so in every order and interleaving each analyzer returns the   *)
(* result it returns when run alone.                                       *)
C16_AnalyzersOnlyRead == [][AnalyzerFrame]_vars /\ []AnalyzerResultsFixed

\* the three analyzers have all returned on a recording sampled at 2 Hz with
\* ECG, SpO2 and respiration channels and a tachycardia marker, part of which
\* the masks they built leave out; SpO2 statistics and breathing rates are
\* defined
C16_Witness ==
    /\ raw # None
    /\ HasChannel(raw, "ecg") /\ HasChannel(raw, "spo2") /\ HasChannel(raw, "resp")
    /\ raw[1].sfreq = 2
    /\ \A a \in Analyzers : an_pc[a] = "returned" /\ an_local[a].artifact_mask # None
    /\ \E k \in 1..raw[1].n_times : ~arrays[Ref("resp", "valid_mask")][1][k]
    /\ ecg_result[1].tachycardia_events = 1
    /\ spo2_result[1].avg_spo2 # None
    /\ resp_result[1].avg_resp_rate # None


----------------------------------------------------------------------------
(* Batch processing *)

\* the processing of a file on its own succeeds: psg_edf needs a readable
\* file with a UUID in its header; edf30 a readable file whose metrics can
\* be computed
PsgSucceeds(f) == Loaded(f) /\ f.uuid # None

Edf30Succeeds(f) ==
    ~NoRecording(load_edf_file(f)) /\ ~edf30_calculate_sleep_architecture(edf30_calculate_sleep_stages(Some(f.raw))).raised

\* the paths among the first k files that satisfy / do not satisfy Edf30Succeeds, in order
Edf30Processed(k) ==
    LET Ok(j) == Edf30Succeeds(files[j])
    IN  SelectSeq([j \in 1..k |-> j], Ok)

Edf30Failed(k) ==
    LET Bad(j) == ~Edf30Succeeds(files[j])
    IN  SelectSeq([j \in 1..k |-> j], Bad)

(* C13: in a batch no failure stops the others, and the outputs are those   *)
(* of the files whose own processing succeeds.  In the psg_edf pool a task  *)
(* that has not reached generate_sql's calls can take its next step, and a  *)
(* finished one has an output exactly if its own file loads and carries a   *)
(* UUID.  The edf30 loop never lets an exception escape, goes on to the     *)
(* next file after a load failure or an exception, lists exactly the files  *)
(* that failed (in order) in failed_files, and the output folder holds one  *)
(* file per file whose own processing succeeded, under that file's UUID.    *)
C13_FailuresIsolated ==
    /\ \A t \in Tasks :
          /\ wpc[t] \in {"load", "loaded", "uuid", "generate", "stages", "annotations", "store"} =>
                ENABLED (\/ PoolLoad(t) \/ PoolLoadReturn(t) \/ PoolUuid(t)
                         \/ PoolGenerateSql(t) \/ PoolStages(t) \/ PoolAnnotations(t)
                         \/ PoolStagesStore(t))
          /\ wpc[t] = "done" => (results[t] # None <=> PsgSucceeds(files[t]))
    /\ folder_pc # "raised"
    /\ (folder_pc = "loop" /\ folder[1].k < NFiles) => ENABLED FolderStep
    /\ folder[1].failed_files = Edf30Failed(folder[1].k)
    /\ Len(folder[1].processed_files) = Len(Edf30Processed(folder[1].k))
    /\ \A j \in 1..Len(folder[1].processed_files) :
          /\ folder[1].processed_files[j].sleep_stats = files[Edf30Processed(folder[1].k)[j]].uuid
          /\ folder[1].processed_files[j] \in folder[1].sql_output
    /\ Cardinality(folder[1].sql_output) = Len(Edf30Processed(folder[1].k))

----------------------------------------------------------------------------
(* Internal invariants of the episode scan *)

(* C29: at every step of the _detect_heart_rate_episodes scan an episode   *)
(* flag is open only if its counter has reached min_consecutive; a counter *)
(* is 0 right after a rate that is not beyond its threshold; and the       *)
(* tachycardia and bradycardia flags are never open together.              *)
C29_FlagsFollowCounters ==
    ep # None =>
        /\ ep[1].tachy_episode => ep[1].tachy_count >= ep_cfg[1].min_consecutive_events
        /\ ep[1].brady_episode => ep[1].brady_count >= ep_cfg[1].min_consecutive_events
        /\ hr_k > 0 =>
              /\ heart_rates[hr_k] <= ep_cfg[1].tachycardia_threshold => ep[1].tachy_count = 0
              /\ heart_rates[hr_k] >= ep_cfg[1].bradycardia_threshold => ep[1].brady_count = 0
        /\ ~(ep[1].tachy_episode /\ ep[1].brady_episode)

\* a tachycardia episode is open right after a bradycardia episode was
\* counted and closed
C29_Witness ==
    /\ ep_pc = "scan" /\ ep # None
    /\ ep[1].tachy_episode /\ ep[1].tachy_count >= ep_cfg[1].min_consecutive_events
    /\ ep[1].bradycardia_events = 1 /\ ~ep[1].brady_episode /\ ep[1].brady_count = 0

----------------------------------------------------------------------------
(* Internal invariants of the REM-cycle scan *)

\* an iteration of the loop has just been executed: its `current` was
\* element i + 1 of the 1-based sequence
ScanIterated == scan_pc = "scan" /\ i' = i + 1

(* C30: at every step of the calculate_rem_cycles scan in_rem and          *)
(* rem_started hold the same value; the `current` epoch of an iteration is *)
(* never the first nor the last of the sequence; cycles grows only by one, *)
(* in an iteration that closes an open cycle on a REM epoch followed by    *)
(* N1/N2/N3, so returning with a cycle still open adds nothing.            *)
C30_TwoStateScan ==
    /\ [](in_rem = rem_started)
    /\ [][ScanIterated => (1 < i + 1 /\ i + 1 < Len(sequence))]_vars
    /\ [][cycles' # cycles =>
            /\ ScanIterated
            /\ cycles' = cycles + 1
            /\ in_rem /\ ~in_rem'
            /\ sequence[i + 1] = "R" /\ sequence[i + 2] \in NREM]_vars

\* the scan has returned with one cycle counted and another one still open
C30_Witness ==
    /\ scan_pc = "returned"
    /\ in_rem /\ rem_started
    /\ cycles = 1
    /\ i = Len(sequence) - 1

----------------------------------------------------------------------------
(* Sign of the REM latency *)

(* C27: whenever calculate_latencies (or calculate_sleep_latencies of the  *)
(* older pipeline) returns a defined REM latency it is at least 0, and the *)
(* first qualifying sleep epoch is never later than the first qualifying   *)
(* REM epoch, whatever the order of the annotations.                       *)
C27_RemLatencyNotNegative ==
    (Done /\ raw # None) =>
        LET lat == calculate_latencies(raw)[1].rem_latency
            lat30 == edf30_calculate_sleep_latencies(raw).rem_latency
        IN  /\ lat # None => lat[1].n >= 0
            /\ lat30 # None => lat30[1].n >= 0
            /\ RemEpochs # {} => First(SleepEpochs) <= First(RemEpochs)

\* REM is the first sleep epoch of the night, after Wake and before N1/N2/N3:
\* the REM latency is defined and 0
C27_Witness ==
    /\ Done /\ raw # None
    /\ RemEpochs # {}
    /\ First(RemEpochs) = First(SleepEpochs)
    /\ Elapsed(First(RemEpochs)) > 0
    /\ \E k \in SleepEpochs : k > First(RemEpochs) /\ Annotations[k].desc # StageR
    /\ calculate_latencies(raw)[1].rem_latency = Some(Frac(0, 600))

----------------------------------------------------------------------------
(* The compact hypnogram *)

\* the symbol of each of the five stages that appear in the hypnogram
HypnogramSymbol ==
    (StageW :> "W") @@ (Stage1 :> "1") @@ (Stage2 :> "2") @@ (Stage3 :> "3") @@ (StageR :> "R")

\* the positions of the qualifying Wake/N1/N2/N3/REM epochs of the stream, and
\* the rank of one of them among them in annotation order
HypnogramEpochs ==
    {k \in DOMAIN Annotations :
        IsStageEpoch(Annotations[k]) /\ Annotations[k].desc # StageUnknown}

HypnogramRank(k) == Cardinality({m \in HypnogramEpochs : m <= k})

(* C28: for every annotation stream the hypnogram of export_hypnogram has  *)
(* e = length of s and d = 30; s lists the qualifying Wake/N1/N2/N3/REM    *)
(* epochs in annotation order; e is the sum of the five stages' counts of  *)
(* calculate_stages on the same stream, which also counts the qualifying   *)
(* Unknown epochs that never appear in s.                                  *)
C28_HypnogramMatchesStages ==
    (Done /\ result # None) =>
        LET h == export_hypnogram(raw)[1]
        IN  /\ Data.hypnogram_data = Some(h)
            /\ h.e = Len(h.s) /\ h.d = 30
            /\ Len(h.s) = Cardinality(HypnogramEpochs)
            /\ \A k \in HypnogramEpochs :
                  h.s[HypnogramRank(k)] = HypnogramSymbol[Annotations[k].desc]
            /\ h.e = stages[1]["Wake"].count + stages[1]["N1"].count + stages[1]["N2"].count
                     + stages[1]["N3"].count + stages[1]["REM"].count
            /\ stages[1]["Unknown"].count =
                  Cardinality({k \in DOMAIN Annotations :
                      IsStageEpoch(Annotations[k]) /\ Annotations[k].desc = StageUnknown})

\* a stream with a qualifying Unknown epoch before a qualifying REM epoch:
\* the table counts both, the hypnogram holds the REM epoch only
C28_Witness ==
    /\ Done /\ result # None
    /\ stages[1]["Unknown"].count = 1
    /\ Annotations[1].desc = StageUnknown
    /\ Data.hypnogram_data = Some([e |-> 1, d |-> 30, s |-> <<"R">>])

----------------------------------------------------------------------------
(* The composite score *)

\* the terms of the score as the specification states them, on the metrics of
\* the loaded recording; points are whole, the REM term is in hundredths
EfficiencyPoints ==
    LET v == Get(calculate_efficiency(stages), "sleep_efficiency", Zero)
    IN  IF FracGE(v, 85) THEN 25 ELSE IF FracGE(v, 70) THEN 20 ELSE IF FracGE(v, 50) THEN 10 ELSE 0

ArchitecturePoints ==
    LET architecture == calculate_architecture(stages)
    IN  (IF FracGE(Get(architecture, "n3_percentage", Zero), 15) THEN 15 ELSE 0)
        + (IF FracGE(Get(architecture, "rem_percentage", Zero), 20) THEN 15 ELSE 0)

AhiPoints ==
    LET v == Get(calculate_indices(raw, stages), "ahi", Zero)
    IN  IF FracLT(v, 5) THEN 30 ELSE IF FracLT(v, 15) THEN 20 ELSE IF FracLT(v, 30) THEN 10 ELSE 0

ArousalPoints ==
    LET v == Get(calculate_fragmentation(raw, stages), "arousal_index", Zero)
    IN  IF FracLT(v, 10) THEN 15 ELSE IF FracLT(v, 20) THEN 10 ELSE 0

RemQualityHundredths == 15 * Get(calculate_rem_quality(raw), "rem_quality_score", 0)

PenaltyPoints ==
    LET tachy == CountDesc(raw[1].annotations, TachyMarker)
        brady == CountDesc(raw[1].annotations, BradyMarker)
    IN  IF tachy > 10 \/ brady > 10 THEN 15
        ELSE IF tachy > 5 \/ brady > 5 THEN 10
        ELSE IF tachy > 0 \/ brady > 0 THEN 5 ELSE 0

BonusPoints ==
    LET rem_cycles == calculate_rem_cycles(raw)
    IN  IF rem_cycles >= 4 THEN 10 ELSE IF rem_cycles >= 3 THEN 5 ELSE 0

\* the sum, in hundredths, and the sum capped at 100
StatedScore ==
    100 * (EfficiencyPoints + ArchitecturePoints + AhiPoints + ArousalPoints
           - PenaltyPoints + BonusPoints)
    + RemQualityHundredths

StatedCapped == IF StatedScore > 10000 THEN 10000 ELSE StatedScore

\* the status of a reported integer score
StatusOfScore(n) ==
    IF n >= 85 THEN "otlichnoe" ELSE IF n >= 70 THEN "horoshee"
    ELSE IF n >= 50 THEN "udovletvoritelnoe" ELSE "plohoe"

(* C22: for every combination of inputs calculate_sleep_quality reports    *)
(* the integer part of: one efficiency tier (25/20/10 at >= 85/70/50), 15  *)
(* for N3% and 15 for REM% at their thresholds, one AHI tier (30/20/10 at  *)
(* < 5/15/30), one arousal tier (15/10 at < 10/20), 0.15 x REM-quality     *)
(* score, minus one penalty tier (15/10/5 at > 10/5/0 markers), plus the   *)
(* cycle bonus (10 at >= 4, 5 at >= 3), capped at 100; the status is the   *)
(* 85/70/50 tier of the reported integer.                                  *)
C22_ScoreIsStatedSum ==
    (pc = "scored" /\ stages # None) =>
        /\ result # None
        /\ result[1].overall_sleep_quality = IntOfHundredths(StatedCapped)
        /\ result[1].sleep_quality_status = StatusOfScore(result[1].overall_sleep_quality)

\* a night that takes middle tiers, both architecture bonuses, the REM term,
\* the middle penalty and the larger cycle bonus
C22_Witness ==
    /\ pc = "scored" /\ stages # None
    /\ EfficiencyPoints = 20 /\ ArchitecturePoints = 30
    /\ AhiPoints = 20 /\ ArousalPoints = 10
    /\ RemQualityHundredths > 0
    /\ PenaltyPoints = 10 /\ BonusPoints = 10
    /\ result[1].overall_sleep_quality = 89
    /\ result[1].sleep_quality_status = "otlichnoe"

(* C25: for a recording with a total sleep time of 0 calculate_sleep_quality *)
(* still awards the full AHI bonus (30) and the full arousal bonus (15),     *)
(* both indices being 0 by default; without tachycardia and bradycardia      *)
(* markers the reported score is exactly 45 with the lowest status.          *)
C25_ZeroSleepScores45 ==
    (Done /\ result # None /\ TotalSleep(stages[1]) = 0) =>
        /\ AhiPoints = 30 /\ ArousalPoints = 15
        /\ EfficiencyPoints = 0 /\ ArchitecturePoints = 0
        /\ RemQualityHundredths = 0 /\ BonusPoints = 0
        /\ PenaltyPoints = 0 =>
              /\ Data.overall_sleep_quality = Some(45)
              /\ Data.sleep_quality_status = Some("plohoe")

\* a night of Wake epochs with apneas and activations and no heart-rate
\* marker, scored 45
C25_Witness ==
    /\ Done /\ result # None
    /\ TotalSleep(stages[1]) = 0
    /\ stages[1]["Wake"].count = 2
    /\ Data.total_apneas = 2 /\ Data.total_arousals = 2
    /\ PenaltyPoints = 0
    /\ Data.overall_sleep_quality = Some(45)

----------------------------------------------------------------------------
(* Heartbeat gaps *)

\* the onsets of the reference events
BeatTimes == HeartbeatTimes(raw[1].annotations)

\* the length of the interval between two onsets as the recording holds them
\* (the doubles a and b nearest to the annotated tenths), exact: the doubles
\* nearest to 6.4 and 16.4 are less than 10 s apart
OnsetDifference(a, b, e) ==
    IF BigCmp(BigShl(b.m, b.e - e), BigShl(a.m, a.e - e)) < 0 THEN FZero
    ELSE [m |-> BigSub(BigShl(b.m, b.e - e), BigShl(a.m, a.e - e)), e |-> e]

OnsetInterval(a, b) == OnsetDifference(a, b, Min(a.e, b.e))

IntervalLength(k) ==
    OnsetInterval(Value(Seconds(BeatTimes[k])), Value(Seconds(BeatTimes[k + 1])))

\* the intervals (by the index of their first event) that are more than 5 s
\* and at least 10 s long
LongIntervals ==
    {k \in 1..(Len(BeatTimes) - 1) :
        FCmpFrac(IntervalLength(k), 5, 1) > 0 /\ FCmpFrac(IntervalLength(k), 10, 1) >= 0}

\* the samples (0-based) of the recording from the first event of interval k
\* up to, not including, the sample of its second event
IntervalSamples(k) ==
    LET start == SampleOf(BeatTimes[k], raw[1].sfreq)
        end == SampleOf(BeatTimes[k + 1], raw[1].sfreq)
    IN  {j \in 0..(raw[1].n_times - 1) : start <= j /\ j < end}

\* the samples of the long intervals, and those of the artifact blocks
LongIntervalSamples == UNION {IntervalSamples(k) : k \in LongIntervals}

ArtifactBlockSamples == UNION {BlockSamples(raw[1].annotations[k]) : k \in ArtifactAnns}

IsGapRegion(region) == "type" \in DOMAIN region

\* the region of interval k, and the regions of the long intervals in order
GapRegionOf(k) ==
    [start_time |-> BeatTimes[k], end_time |-> BeatTimes[k + 1],
     duration |-> BeatTimes[k + 1] - BeatTimes[k], type |-> "heartbeat_gap"]

RECURSIVE LongIntervalRegions(_)
LongIntervalRegions(k) ==
    IF k >= Len(BeatTimes) THEN <<>>
    ELSE (IF k \in LongIntervals THEN <<GapRegionOf(k)>> ELSE <<>>) \o LongIntervalRegions(k + 1)

(* C23: get_heartbeat_gaps marks the samples of an interval between two    *)
(* consecutive reference events, and records a region of type              *)
(* heartbeat_gap for it, exactly when the interval is more than max_gap    *)
(* (5 s) and at least min_duration (10 s) long; the validity mask of       *)
(* get_artifact_mask is false exactly on those samples and on the artifact *)
(* blocks; with fewer than two reference events there is no gap mask, no   *)
(* gap region and nothing masked besides the artifact blocks.              *)
C23_GapsMaskedIffLong ==
    valid_mask # None =>
        LET gaps == get_heartbeat_gaps(raw)
            mask == valid_mask[1].mask[1]
            long == LongIntervalSamples
            blocks == ArtifactBlockSamples
        IN  /\ Len(BeatTimes) < 2 => gaps = [mask |-> None, regions |-> <<>>]
            /\ Len(BeatTimes) >= 2 =>
                  /\ gaps.mask # None
                  /\ \A j \in 0..(raw[1].n_times - 1) : gaps.mask[1][j + 1] <=> j \in long
            /\ gaps.regions = LongIntervalRegions(1)
            /\ SelectSeq(valid_mask[1].regions, IsGapRegion) = LongIntervalRegions(1)
            /\ \A j \in 0..(raw[1].n_times - 1) :
                  mask[j + 1] <=> (j \notin blocks /\ j \notin long)

\* three reference events 1 s and 10 s apart: the second interval is masked
\* and recorded, the first is not
C23_Witness ==
    /\ valid_mask # None
    /\ BeatTimes = <<0, 10, 110>>
    /\ LongIntervals = {2}
    /\ ~valid_mask[1].mask[1][2] /\ valid_mask[1].mask[1][1] /\ valid_mask[1].mask[1][12]
    /\ Len(valid_mask[1].regions) = 1

----------------------------------------------------------------------------
(* One analyzer for several recordings *)

\* what process_file returns for file k on a SQLGenerator that has processed
\* nothing before
FreshProcessFile(k) ==
    LET loaded == load_edf(files[k])
        uid == extract_uuid(files[k])
    IN  IF NoRecording(loaded) \/ uid = None THEN None ELSE generate_sql(loaded, k, uid[1])

\* what one iteration of the folder loop does for file k on an edf30
\* analyzer that has processed nothing before
FreshIteration(k) == FolderIteration(FolderStart, files[k], k)

RECURSIVE FreshProcessed(_)
FreshProcessed(k) ==
    IF k = 0 THEN <<>> ELSE FreshProcessed(k - 1) \o FreshIteration(k).processed_files

RECURSIVE FreshFailed(_)
FreshFailed(k) ==
    IF k = 0 THEN <<>> ELSE FreshFailed(k - 1) \o FreshIteration(k).failed_files

(* C26: when one analyzer processes recordings strictly one after another  *)
(* the output for each recording is the one a fresh analyzer produces for  *)
(* it, in psg_edf and in the folder loop of edf30, also after a recording  *)
(* that failed to load or failed midway; and what the analyzer holds in    *)
(* self.stages while a bundle is produced is the table of the recording    *)
(* being processed.                                                        *)
C26_SerialEqualsFresh ==
    /\ \A k \in 1..Len(results) : results[k] = FreshProcessFile(k)
    /\ (pc = "done" /\ result # None) =>
          /\ result = FreshProcessFile(path)
          /\ stages = calculate_stages(Some(files[path].raw))
    /\ folder[1].processed_files = FreshProcessed(folder[1].k)
    /\ folder[1].failed_files = FreshFailed(folder[1].k)

\* both programs are through: the first recording failed midway in edf30, the
\* second could not be read, and each produced output is the fresh one
C26_Witness ==
    /\ pc = "finished" /\ folder_pc = "returned"
    /\ files[1].loadable /\ files[1].uuid # None
    /\ files[1].raw = Recording(<<Ann(StageR, 300)>>)
    /\ ~files[2].loadable
    /\ results = <<FreshProcessFile(1), None>>
    /\ results[1] # None
    /\ raw = Some(files[1].raw)
    /\ folder[1].failed_files = <<1, 2>>
    /\ folder[1].raw = Some(files[1].raw)

----------------------------------------------------------------------------
(* The heart-rate analysis of edf30 *)

HrReturned == beat_pc = "returned"

HasEcgChannel == \E c \in DOMAIN raw[1].ch_names : IsEcgChannel(raw[1].ch_names[c])

\* the rates left of the beats that were detected
ValidRates == calculate_heart_rate_metrics(all_r_peaks, raw[1].sfreq, Edf30RateLimits).heart_rates

MarkerCount(label) ==
    Cardinality({k \in DOMAIN raw[1].annotations : raw[1].annotations[k].desc = label})

\* the runs of at least min_consecutive_events rates above the tachycardia
\* threshold, counted where a run reaches that length
StatedTachyEpisodes(rates, cfg) ==
    LET m == cfg.min_consecutive_events
    IN  Cardinality({k \in DOMAIN rates :
            /\ k >= m
            /\ \A j \in (k - m + 1)..k : rates[j] > cfg.tachycardia_threshold
            /\ (k = m \/ ~(rates[k - m] > cfg.tachycardia_threshold))})

StatedBradyEpisodes(rates, cfg) ==
    LET m == cfg.min_consecutive_events
    IN  Cardinality({k \in DOMAIN rates :
            /\ k >= m
            /\ \A j \in (k - m + 1)..k : rates[j] < cfg.bradycardia_threshold
            /\ (k = m \/ ~(rates[k - m] < cfg.bradycardia_threshold))})

RateStatistics == {"avg_heart_rate", "min_heart_rate", "max_heart_rate", "heart_rate_variability"}

\* C21: analyze_heart_rate_comprehensive returns the marker result exactly
\* when there is no ECG channel, an exception occurred (here: the recording
\* is falsy, so there is no mask), at most 100 beats were detected or at most
\* 5 valid rates remain.  The marker result has analysis_method "markers",
\* the four rate statistics None and the numbers of tachycardia and
\* bradycardia marker annotations as counts; otherwise analysis_method is
\* "ecg", the four statistics are defined and the counts are the episodes
\* found in the rate sequence.
C21_FallbackExactly ==
    HrReturned =>
        LET res == hr_results[1]
            fallback == \/ ~HasEcgChannel
                        \/ NoRecording(raw)
                        \/ Len(all_r_peaks) <= 100
                        \/ Len(ValidRates) <= 5
        IN  /\ (res.analysis_method = "markers") <=> fallback
            /\ res.analysis_method \in {"markers", "ecg"}
            /\ res.analysis_method = "markers" =>
                  /\ \A f \in RateStatistics : res[f] = None
                  /\ res.tachycardia_events = MarkerCount(TachyMarker)
                  /\ res.bradycardia_events = MarkerCount(BradyMarker)
            /\ res.analysis_method = "ecg" =>
                  /\ \A f \in RateStatistics : res[f] # None
                  /\ res.tachycardia_events = StatedTachyEpisodes(ValidRates, Edf30EcgConfig)
                  /\ res.bradycardia_events = StatedBradyEpisodes(ValidRates, Edf30EcgConfig)

\* exactly 100 beats were detected in the ECG channel and the marker result,
\* with the two tachycardia markers and the one bradycardia marker, is returned
C21_Witness ==
    /\ HrReturned /\ HasEcgChannel
    /\ Len(all_r_peaks) = 100
    /\ hr_results[1].analysis_method = "markers"
    /\ hr_results[1].avg_heart_rate = None
    /\ hr_results[1].tachycardia_events = 2 /\ hr_results[1].bradycardia_events = 1

\* the mask the segments were found in, and its length
SegmentMask == valid_mask30[1].mask[1]

\* sample idx (from 0) is valid
ValidSample(idx) == SegmentMask[idx + 1]

\* where a run of valid samples starts, and where one ends (exclusive)
ValidRunStarts ==
    {a \in 0..(Len(SegmentMask) - 1) : ValidSample(a) /\ (a = 0 \/ ~ValidSample(a - 1))}

ValidRunEnds ==
    {b \in 1..Len(SegmentMask) : ValidSample(b - 1) /\ (b = Len(SegmentMask) \/ ~ValidSample(b))}

\* the maximal runs of valid samples that are long enough
LongValidRuns ==
    {<<a, CHOOSE b \in ValidRunEnds : b > a /\ \A c \in ValidRunEnds : c > a => b <= c>> : a \in ValidRunStarts}
    \cap {r \in (0..Len(SegmentMask)) \X (0..Len(SegmentMask)) :
              r[2] - r[1] >= IntTimes(1000, raw[1].sfreq)}

\* what the detector finds in the k-th segment on its own, as global indices
OwnPeaks(k) ==
    LET seg == valid_segments[1][k]
        found == detect_r_peaks(SubSeq(ChannelData(raw, "ECG"), seg[1] + 1, seg[2]),
                                raw[1].sfreq, raw[1].sfreq_is_int)
    IN  [j \in 1..Len(found) |-> found[j] + seg[1]]

\* the merged beats that lie in the k-th segment
MergedIn(k) ==
    LET seg == valid_segments[1][k]
    IN  SelectSeq(all_r_peaks, LAMBDA p : seg[1] <= p /\ p < seg[2])

\* C24: find_continuous_segments returns exactly the maximal runs of valid
\* samples of at least the minimum length (10 s of samples), as half-open
\* ranges in increasing order without overlap; the merged beats are global
\* indices of valid samples in strictly increasing order, each inside a
\* segment already visited, and once every segment is visited the beats in
\* each segment are what the detector finds in that segment alone, shifted
\* by the segment start.
C24_SegmentsAndOffsets ==
    valid_segments # None =>
        LET segs == valid_segments[1]
        IN  /\ {segs[k] : k \in DOMAIN segs} = LongValidRuns
            /\ \A k \in DOMAIN segs : segs[k][1] < segs[k][2]
            /\ \A k \in 1..(Len(segs) - 1) : segs[k][2] < segs[k + 1][1]
            /\ \A k \in DOMAIN all_r_peaks :
                  /\ all_r_peaks[k] \in 0..(Len(SegmentMask) - 1)
                  /\ ValidSample(all_r_peaks[k])
                  /\ \E c \in 1..seg_k : segs[c][1] <= all_r_peaks[k] /\ all_r_peaks[k] < segs[c][2]
            /\ \A k \in 1..(Len(all_r_peaks) - 1) : all_r_peaks[k] < all_r_peaks[k + 1]
            /\ (beat_pc = "peaks" /\ seg_k = Len(segs)) =>
                  \A k \in DOMAIN segs : MergedIn(k) = OwnPeaks(k)

\* two segments, the first of exactly 10 s, both visited, with beats in both
C24_Witness ==
    /\ valid_segments = Some(<<(<<10, 50>>), (<<60, 100>>)>>)
    /\ beat_pc = "peaks" /\ seg_k = 2
    /\ \E k \in DOMAIN all_r_peaks : all_r_peaks[k] < 50
    /\ \E k \in DOMAIN all_r_peaks : all_r_peaks[k] >= 60
    /\ ~ValidSample(50) /\ ~ValidSample(9)

====
